---- MODULE Spec2Model ----
(***************************************************************************)
(* Model of the spreadsheet synchronization of VisionFusion_OCR_QR:        *)
(* append_excel_data_to_sheets (src/app.py), from the header read at line  *)
(* 1488 to the return at line 1638, together with the exception handlers   *)
(* at 1590-1621 and 1640-1644.                                              *)
(*                                                                         *)
(* Strings are sequences of one-character strings, so that strip, lower    *)
(* and startswith are computed and not assumed.  The remote sheet is a     *)
(* grid: a sequence of rows, row 1 being the header row, each row a        *)
(* sequence of cells.  A cell that was never written holds NoValue.        *)
(***************************************************************************)
EXTENDS Integers, Sequences, FiniteSets, TLC

(***************************************************************************)
(* Bounds of the model.                                                    *)
(***************************************************************************)
MaxCalls == 2
MaxRows == 2

(***************************************************************************)
(* Strings                                                                 *)
(***************************************************************************)
EmptyStr == <<>>

\* a cell that holds no value (never written, or NaN/None in the local table)
NoValue == <<"NoValue">>

\* str.lower() on the characters the model uses
LowerChar(ch) ==
    CASE ch = "A" -> "a"
      [] ch = "B" -> "b"
      [] ch = "C" -> "c"
      [] ch = "D" -> "d"
      [] ch = "E" -> "e"
      [] ch = "F" -> "f"
      [] ch = "G" -> "g"
      [] ch = "H" -> "h"
      [] ch = "I" -> "i"
      [] ch = "J" -> "j"
      [] ch = "K" -> "k"
      [] ch = "L" -> "l"
      [] ch = "M" -> "m"
      [] ch = "N" -> "n"
      [] ch = "O" -> "o"
      [] ch = "P" -> "p"
      [] ch = "Q" -> "q"
      [] ch = "R" -> "r"
      [] ch = "S" -> "s"
      [] ch = "T" -> "t"
      [] ch = "U" -> "u"
      [] ch = "V" -> "v"
      [] ch = "W" -> "w"
      [] ch = "X" -> "x"
      [] ch = "Y" -> "y"
      [] ch = "Z" -> "z"
      [] OTHER -> ch

Lower(s) == [i \in 1..Len(s) |-> LowerChar(s[i])]

IsSpace(ch) == ch = " "

RECURSIVE LStrip(_)
LStrip(s) ==
    IF s = <<>> THEN <<>>
    ELSE IF IsSpace(Head(s)) THEN LStrip(Tail(s)) ELSE s

RECURSIVE RStrip(_)
RStrip(s) ==
    IF s = <<>> THEN <<>>
    ELSE IF IsSpace(s[Len(s)]) THEN RStrip(SubSeq(s, 1, Len(s) - 1)) ELSE s

\* str.strip()
Strip(s) == RStrip(LStrip(s))

\* str.startswith(ch) for a one-character prefix
StartsWith(s, ch) == Len(s) >= 1 /\ s[1] = ch

\* the null-like sentinels of clean_cell, lower-cased
Sentinels ==
    { <<"n","a","n">>, <<"n","o","n","e">>, <<"n","a","t">>,
      <<"<","n","a",">">>, <<"n","u","l","l">> }

\* clean_cell without the test for a leading '#'
clean_cell_keep_hash(cell) ==
    IF cell = NoValue THEN EmptyStr
    ELSE LET cell_str == Strip(cell) IN
         IF Lower(cell_str) \in Sentinels THEN EmptyStr ELSE cell_str

\* clean_cell: a missing value, a null-like sentinel or an error marker
\* becomes the empty string, anything else is sent stripped
clean_cell(cell) ==
    IF cell = NoValue THEN EmptyStr
    ELSE LET cell_str == Strip(cell) IN
         IF Lower(cell_str) \in Sentinels THEN EmptyStr
         ELSE IF StartsWith(cell_str, "#") THEN EmptyStr
         ELSE cell_str

(***************************************************************************)
(* Column letters                                                          *)
(***************************************************************************)
\* _col_index_to_letter: the letters are code points 65..90
RECURSIVE ColLetterLoop(_, _)
ColLetterLoop(col_index, result) ==
    IF col_index >= 0
    THEN ColLetterLoop((col_index \div 26) - 1, <<(col_index % 26) + 65>> \o result)
    ELSE result

_col_index_to_letter(col_index) == ColLetterLoop(col_index, <<>>)

\* the remote store reads a column name back as a 0-based column index
RECURSIVE LetterToNumber(_)
LetterToNumber(letters) ==
    IF letters = <<>> THEN 0
    ELSE LetterToNumber(SubSeq(letters, 1, Len(letters) - 1)) * 26
         + (letters[Len(letters)] - 64)

LetterToIndex(letters) == LetterToNumber(letters) - 1

(***************************************************************************)
(* The remote sheet: the requests the synchronization sends                *)
(*                                                                         *)
(* The sheet stores what a write sends and returns what it stores: the     *)
(* header read returns the cells of row 1, the A:A read one entry per row, *)
(* an update writes its body from the top-left corner of its range and an  *)
(* append puts its rows below the last row.  The conversions of            *)
(* valueInputOption='USER_ENTERED' are outside the model.                  *)
(***************************************************************************)
\* the cell of row r, column c (1-based) of a grid; NoValue when unset
CellAt(g, r, c) ==
    IF r <= Len(g) /\ c <= Len(g[r]) THEN g[r][c] ELSE NoValue

\* values().get(range='Sheet1!1:1'): the 'values' of the response, <<>> when
\* the response has none
GetRow1(g) == IF Len(g) >= 1 /\ g[1] # <<>> THEN <<g[1]>> ELSE <<>>

\* values().get(range='Sheet1!A:A'): one entry per row of the sheet
GetColA(g) ==
    [r \in 1..Len(g) |-> IF Len(g[r]) >= 1 THEN <<g[r][1]>> ELSE <<>>]

\* a row with cells c0..c0+Len(cells)-1 overwritten by cells
WriteCells(row, c0, cells) ==
    LET last == c0 + Len(cells) - 1
        width == IF last > Len(row) THEN last ELSE Len(row)
    IN [j \in 1..width |->
            IF j >= c0 /\ j <= last THEN cells[j - c0 + 1]
            ELSE IF j <= Len(row) THEN row[j] ELSE NoValue]

\* values().update(range, body): body written from the top-left corner of
\* the range; range = [c0, r0, c1, r1], the columns as letters
ValuesUpdate(g, range, body) ==
    LET c0 == LetterToIndex(range.c0) + 1
        last == range.r0 + Len(body) - 1
        height == IF last > Len(g) THEN last ELSE Len(g)
    IN [r \in 1..height |->
            IF r >= range.r0 /\ r <= last
            THEN WriteCells(IF r <= Len(g) THEN g[r] ELSE <<>>, c0,
                            body[r - range.r0 + 1])
            ELSE g[r]]

\* the rows inserted right below the header row
ValuesInsertAfterHeader(g, body) ==
    IF g = <<>> THEN body ELSE <<g[1]>> \o body \o Tail(g)

\* values().append(range='Sheet1!A:A', insertDataOption='INSERT_ROWS'):
\* the rows are inserted after the last row of the table
ValuesAppend(g, body) == g \o body

\* 'Sheet1!1:1'
Row1Range == [c0 |-> <<65>>, r0 |-> 1, c1 |-> <<>>, r1 |-> 1]

(***************************************************************************)
(* The local table (df at line 1488)                                       *)
(***************************************************************************)
CompanyID == <<"C","o","m","p","a","n","y","I","D">>

\* the other column names of the local tables: a plain name and a name that
\* starts with the error marker
OtherNames == { <<"N","a","m","e">>, <<"#","N","o">> }

ColTag(name) ==
    CASE name = CompanyID -> "c"
      [] name = <<"N","a","m","e">> -> "n"
      [] OTHER -> "h"

RowDigit(r) == CASE r = 1 -> "1" [] r = 2 -> "2" [] r = 3 -> "3" [] OTHER -> "9"

\* the value of the local cell of row r under column name; the first cell of
\* the Name column carries an error marker that survived
\* remove_formulas_from_df (written with a leading blank, stripped at line
\* 1474); the second cell of the '#No' column is the text '<na>', which the
\* replacements of lines 1472-1481 leave alone
LocalCell(name, r) ==
    IF r = 1 /\ name = <<"N","a","m","e">>
    THEN <<"#", ColTag(name), RowDigit(r)>>
    ELSE IF r = 2 /\ name = <<"#","N","o">>
    THEN <<"<","n","a",">">>
    ELSE <<ColTag(name), RowDigit(r)>>

InjectiveSeqs(S) ==
    { s \in UNION { [1..k -> S] : k \in 0..Cardinality(S) } :
        \A i, j \in 1..Len(s) : i # j => s[i] # s[j] }

\* df.columns: CompanyID first (lines 999-1001), then distinct other names
ColumnLists == { <<CompanyID>> \o s : s \in InjectiveSeqs(OtherNames) }

MakeDf(cols, n) ==
    [columns |-> cols,
     rows |-> [r \in 1..n |-> [j \in 1..Len(cols) |-> LocalCell(cols[j], r)]]]

LocalTables == { MakeDf(cols, n) : cols \in ColumnLists, n \in 1..MaxRows }

InList(x, l) == \E i \in 1..Len(l) : l[i] = x

IndexOf(x, l) == CHOOSE i \in 1..Len(l) : l[i] = x

\* every local column taken as new
NewColumnsUnfiltered(new_headers, existing) == new_headers

\* [col for col in new_headers if col not in existing_headers]
RECURSIVE NewColumns(_, _)
NewColumns(new_headers, existing) ==
    IF new_headers = <<>> THEN <<>>
    ELSE IF InList(Head(new_headers), existing)
         THEN NewColumns(Tail(new_headers), existing)
         ELSE <<Head(new_headers)>> \o NewColumns(Tail(new_headers), existing)

\* the new columns put in front of the existing header
AllColumnsInFront(all, new_cols) == new_cols \o all

\* all_columns = existing_headers.copy(); for col in new_columns:
\*     if col not in all_columns: all_columns.append(col)
RECURSIVE AllColumns(_, _)
AllColumns(all, new_cols) ==
    IF new_cols = <<>> THEN all
    ELSE IF InList(Head(new_cols), all)
         THEN AllColumns(all, Tail(new_cols))
         ELSE AllColumns(Append(all, Head(new_cols)), Tail(new_cols))

\* the local columns kept in their own order, the row padded to the width
ReindexByPosition(d, all) ==
    [r \in 1..Len(d.rows) |->
        [j \in 1..Len(all) |->
            IF j <= Len(d.columns) THEN d.rows[r][j] ELSE <<>>]]

\* for col in all_columns: if col not in df.columns: df[col] = ''
\* df = df[all_columns]; values = df.values.tolist()
Reindex(d, all) ==
    [r \in 1..Len(d.rows) |->
        [j \in 1..Len(all) |->
            IF InList(all[j], d.columns)
            THEN d.rows[r][IndexOf(all[j], d.columns)]
            ELSE EmptyStr]]

\* values = [[clean_cell(cell) for cell in row] for row in values]
CleanValues(vals) ==
    [r \in 1..Len(vals) |-> [j \in 1..Len(vals[r]) |-> clean_cell(vals[r][j])]]

\* the backfill range starting one column too far left
BackfillRangeShifted(existing, new_cols, count) ==
    LET start_col_index == Len(existing) - 1 IN
    [c0 |-> _col_index_to_letter(start_col_index), r0 |-> 2,
     c1 |-> _col_index_to_letter(start_col_index + Len(new_cols) - 1),
     r1 |-> count + 1]

\* the range of the backfill write:
\* f'{start_col_letter}2:{end_col_letter}{existing_rows_count+1}'
BackfillRange(existing, new_cols, count) ==
    LET start_col_index == Len(existing) IN
    [c0 |-> _col_index_to_letter(start_col_index), r0 |-> 2,
     c1 |-> _col_index_to_letter(start_col_index + Len(new_cols) - 1),
     r1 |-> count + 1]

\* one row of empty values too few
EmptyValuesShort(new_cols, count) ==
    [r \in 1..(count - 1) |-> [j \in 1..Len(new_cols) |-> <<>>]]

\* empty_values = [[''] * len(new_columns) for _ in range(existing_rows_count)]
EmptyValues(new_cols, count) ==
    [r \in 1..count |-> [j \in 1..Len(new_cols) |-> EmptyStr]]

(***************************************************************************)
(* Failures of a remote request                                            *)
(***************************************************************************)
\* an exception raised by .execute(): an HttpError with its status and
\* message, or another exception; msg is str(e) as a sequence of phrases
Errors ==
    { [http |-> TRUE, status |-> 429, msg |-> <<"HttpError 429", "Too many requests">>],
      [http |-> TRUE, status |-> 403, msg |-> <<"HttpError 403", "The caller does not have permission">>],
      [http |-> TRUE, status |-> 400, msg |-> <<"HttpError 400", "exceeds grid limits">>],
      [http |-> TRUE, status |-> 400, msg |-> <<"HttpError 400", "Quota exceeded">>],
      [http |-> TRUE, status |-> 500, msg |-> <<"HttpError 500", "Internal error">>],
      [http |-> FALSE, status |-> 0, msg |-> <<"timed out">>] }

\* "phrase" in error_msg
Contains(msg, phrase) == \E i \in 1..Len(msg) : msg[i] = phrase

file_url == "https://docs.google.com/spreadsheets/d/file_id/edit"

NoResult ==
    [returned |-> FALSE, success |-> FALSE, message |-> <<>>, url |-> "None",
     total_rows |-> 0]

\* a failure that still hands out the sheet's URL
FailureWithUrl(message) ==
    [returned |-> TRUE, success |-> FALSE, message |-> message, url |-> file_url,
     total_rows |-> 0]

\* return False, <message>, None, 0
Failure(message) ==
    [returned |-> TRUE, success |-> FALSE, message |-> message, url |-> "None",
     total_rows |-> 0]

\* the except HttpError clause of the append
Classify(e) ==
    IF e.status = 429
    THEN Failure(<<"Rate limit reached. please wait a few minutes">>)
    ELSE IF e.status = 403
    THEN Failure(<<"no access to google sheet. check service account">>)
    ELSE IF Contains(e.msg, "exceeds grid limits") \/ Contains(e.msg, "GRID_LIMITS")
    THEN Failure(<<"sheet is full (10m cells limit). create a new sheet">>)
    ELSE IF Contains(e.msg, "Quota exceeded")
    THEN Failure(<<"google daily quota finished. try again tomorrow">>)
    ELSE Failure(<<"google error: ">> \o e.msg)

\* the character U+2705, which the module cannot spell in a string
CheckMark == "U+2705"

\* return True, message, file_url, total_rows (lines 1637-1638)
Success(updated, total, total_columns) ==
    [returned |-> TRUE, success |-> TRUE,
     message |-> <<CheckMark, " ", ToString(updated), " new rows | Total: ",
                   ToString(total),
                   " rows | ", ToString(total_columns), " columns">>,
     url |-> file_url, total_rows |-> total]

(***************************************************************************)
(* State                                                                   *)
(***************************************************************************)
VARIABLES
    grid,                 \* the remote sheet
    pc,                   \* the request the call is about to send, or "idle"
    df,                   \* the local table
    existing_headers,
    new_columns,
    all_columns,
    existing_rows_count,
    values,
    existing_rows,
    updated_rows,
    total_rows,
    result,               \* the value the last call returned
    reqs,                 \* the requests the current call has sent, in order
    calls,                \* number of calls started
    grid0,                \* the remote sheet when the current call started
    batches,              \* the successful appends so far
    pending,              \* a call stopped between header write and backfill
    retry,                \* that call, when the current call re-runs its local table
    frame                 \* the locals of the table function being applied

locals == <<existing_headers, new_columns, all_columns, existing_rows_count,
            values, existing_rows, updated_rows, total_rows>>

history == <<grid0, batches, pending, retry>>

vars == <<grid, pc, df, locals, result, reqs, calls, history, frame>>

ColARange == [c0 |-> <<65>>, r0 |-> 1, c1 |-> <<65>>, r1 |-> 0]

NoPending == [active |-> FALSE, df |-> [columns |-> <<>>, rows |-> <<>>],
              first |-> 0, last |-> 0, nrows |-> 0]

NoError == [http |-> FALSE, status |-> 0, msg |-> <<>>]

\* a request of the call and its outcome: err is the exception .execute()
\* raised, NoError when it returned
Request(step, op, range, body, err) ==
    [step |-> step, op |-> op, range |-> range, body |-> body,
     ok |-> (err = NoError), err |-> err]

Steps == {"header_read", "header_write", "count_probe", "backfill",
          "rows_probe", "append", "final_read"}

\* the request sent at each step
RequestAt(step, err) ==
    CASE step = "header_read" -> Request(step, "get", Row1Range, <<>>, err)
      [] step = "header_write" -> Request(step, "update", Row1Range, <<all_columns>>, err)
      [] step = "count_probe" -> Request(step, "get", ColARange, <<>>, err)
      [] step = "backfill" ->
            Request(step, "update",
                    BackfillRange(existing_headers, new_columns, existing_rows_count),
                    EmptyValues(new_columns, existing_rows_count), err)
      [] step = "rows_probe" -> Request(step, "get", ColARange, <<>>, err)
      [] step = "append" -> Request(step, "append", ColARange, values, err)
      [] OTHER -> Request(step, "get", Row1Range, <<>>, err)

\* the table an earlier run has synchronized into the sheet: the sheet is
\* either empty or holds the header and the row of that run
SeedTable == MakeDf(<<CompanyID>>, 1)

\* no table function is being applied
NoFrame == [fn |-> "none"]

\* no call has been made yet
AtRest ==
    /\ pc = "idle"
    /\ df = [columns |-> <<>>, rows |-> <<>>]
    /\ existing_headers = <<>>
    /\ new_columns = <<>>
    /\ all_columns = <<>>
    /\ existing_rows_count = 0
    /\ values = <<>>
    /\ existing_rows = 0
    /\ updated_rows = 0
    /\ total_rows = 0
    /\ result = NoResult
    /\ reqs = <<>>
    /\ calls = 0
    /\ grid0 = grid
    /\ pending = NoPending
    /\ retry = NoPending

Init ==
    /\ \/ /\ grid = <<>>
          /\ batches = <<>>
       \/ /\ grid = ValuesAppend(<<>>, CleanValues(<<SeedTable.columns>> \o SeedTable.rows))
          /\ batches = <<[at |-> 0, df |-> SeedTable, header_sent |-> TRUE,
                        width |-> Len(SeedTable.columns)]>>
    /\ AtRest
    /\ frame = NoFrame

(***************************************************************************)
(* The call, one action per remote request                                 *)
(***************************************************************************)
\* append_excel_data_to_sheets reaches line 1488 with the local table d
StartCall ==
    /\ pc = "idle"
    /\ calls < MaxCalls
    /\ \E d \in LocalTables :
        /\ df' = d
        /\ retry' = IF pending.active /\ pending.df = d THEN pending ELSE NoPending
    /\ pc' = "header_read"
    /\ calls' = calls + 1
    /\ existing_headers' = <<>>
    /\ new_columns' = <<>>
    /\ all_columns' = <<>>
    /\ existing_rows_count' = 0
    /\ values' = <<>>
    /\ existing_rows' = 0
    /\ updated_rows' = 0
    /\ total_rows' = 0
    /\ result' = NoResult
    /\ reqs' = <<>>
    /\ grid0' = grid
    /\ pending' = NoPending
    /\ UNCHANGED <<grid, batches>>
    /\ UNCHANGED frame

\* lines 1488-1508: read the header, diff the columns
ReadHeader ==
    /\ pc = "header_read"
    /\ reqs' = Append(reqs, RequestAt(pc, NoError))
    /\ LET got == GetRow1(grid)
           existing == IF got # <<>> THEN got[1] ELSE <<>>
           new_headers == df.columns
           new_cols == NewColumns(new_headers, existing)
           all == AllColumns(existing, new_cols)
       IN /\ existing_headers' = existing
          /\ IF existing = <<>>
             THEN /\ values' = CleanValues(<<new_headers>> \o df.rows)
                  /\ pc' = "rows_probe"
                  /\ UNCHANGED <<new_columns, all_columns>>
             ELSE /\ new_columns' = new_cols
                  /\ all_columns' = all
                  /\ IF new_cols # <<>>
                     THEN /\ pc' = "header_write"
                          /\ UNCHANGED values
                     ELSE /\ values' = CleanValues(Reindex(df, all))
                          /\ pc' = "rows_probe"
    /\ UNCHANGED <<grid, df, existing_rows_count, existing_rows, updated_rows,
                   total_rows, result, calls, history>>
    /\ UNCHANGED frame

\* lines 1513-1518: write the widened header
WriteHeader ==
    /\ pc = "header_write"
    /\ reqs' = Append(reqs, RequestAt(pc, NoError))
    /\ grid' = ValuesUpdate(grid, Row1Range, <<all_columns>>)
    /\ pc' = "count_probe"
    /\ UNCHANGED <<df, locals, result, calls, history>>
    /\ UNCHANGED frame

\* lines 1520-1525: count the rows that exist already
CountRows ==
    /\ pc = "count_probe"
    /\ reqs' = Append(reqs, RequestAt(pc, NoError))
    /\ LET count == Len(GetColA(grid)) - 1 IN
          /\ existing_rows_count' = count
          /\ IF count > 0
             THEN /\ pc' = "backfill"
                  /\ UNCHANGED values
             ELSE /\ values' = CleanValues(Reindex(df, all_columns))
                  /\ pc' = "rows_probe"
    /\ UNCHANGED <<grid, df, existing_headers, new_columns, all_columns,
                   existing_rows, updated_rows, total_rows, result, calls, history>>
    /\ UNCHANGED frame

\* lines 1526-1546: fill the old rows under the new columns, reindex
Backfill ==
    /\ pc = "backfill"
    /\ reqs' = Append(reqs, RequestAt(pc, NoError))
    /\ grid' = ValuesUpdate(grid,
                   BackfillRange(existing_headers, new_columns, existing_rows_count),
                   EmptyValues(new_columns, existing_rows_count))
    /\ values' = CleanValues(Reindex(df, all_columns))
    /\ pc' = "rows_probe"
    /\ UNCHANGED <<df, existing_headers, new_columns, all_columns,
                   existing_rows_count, existing_rows, updated_rows, total_rows,
                   result, calls, history>>
    /\ UNCHANGED frame

\* lines 1567-1570
ProbeRows ==
    /\ pc = "rows_probe"
    /\ reqs' = Append(reqs, RequestAt(pc, NoError))
    /\ existing_rows' = Len(GetColA(grid))
    /\ pc' = "append"
    /\ UNCHANGED <<grid, df, existing_headers, new_columns, all_columns,
                   existing_rows_count, values, updated_rows, total_rows, result,
                   calls, history>>
    /\ UNCHANGED frame

\* lines 1578-1588: append the rows
AppendRows ==
    /\ pc = "append"
    /\ reqs' = Append(reqs, RequestAt(pc, NoError))
    /\ grid' = ValuesAppend(grid, values)
    /\ updated_rows' = Len(values)
    /\ total_rows' = existing_rows + Len(values)
    /\ batches' = Append(batches, [at |-> Len(grid), df |-> df,
                                   header_sent |-> (existing_headers = <<>>),
                                   width |-> Len(values[1])])
    /\ pc' = "final_read"
    /\ UNCHANGED <<df, existing_headers, new_columns, all_columns,
                   existing_rows_count, values, existing_rows, result, calls,
                   grid0, pending, retry>>
    /\ UNCHANGED frame

\* lines 1624-1638: read the header again and report
FinalRead ==
    /\ pc = "final_read"
    /\ reqs' = Append(reqs, RequestAt(pc, NoError))
    /\ LET got == GetRow1(grid)
           total_columns == Len(IF got # <<>> THEN got[1] ELSE <<>>)
       IN result' = Success(updated_rows, total_rows, total_columns)
    /\ pc' = "idle"
    /\ UNCHANGED <<grid, df, locals, calls, history>>
    /\ UNCHANGED frame

\* a stopped call leaves the header widened and the old rows unfilled
StoppedBeforeBackfill ==
    IF pc \in {"count_probe", "backfill"}
    THEN [active |-> TRUE, df |-> df, first |-> Len(existing_headers) + 1,
          last |-> Len(all_columns), nrows |-> Len(grid) - 1]
    ELSE NoPending

\* lines 1640-1644: a request outside the append's try block raises
OuterExcept ==
    /\ pc \in Steps \ {"append"}
    /\ \E e \in Errors :
        /\ result' = Failure(e.msg)
        /\ reqs' = Append(reqs, RequestAt(pc, e))
    /\ pending' = StoppedBeforeBackfill
    /\ pc' = "idle"
    /\ UNCHANGED <<grid, df, locals, calls, grid0, batches, retry>>
    /\ UNCHANGED frame

\* lines 1590-1617: the append raises an HttpError
AppendHttpError ==
    /\ pc = "append"
    /\ \E e \in Errors :
        /\ e.http
        /\ result' = Classify(e)
        /\ reqs' = Append(reqs, RequestAt(pc, e))
    /\ pc' = "idle"
    /\ UNCHANGED <<grid, df, locals, calls, history>>
    /\ UNCHANGED frame

\* lines 1619-1621: the append raises another exception
AppendException ==
    /\ pc = "append"
    /\ \E e \in Errors :
        /\ ~e.http
        /\ result' = Failure(e.msg)
        /\ reqs' = Append(reqs, RequestAt(pc, e))
    /\ pc' = "idle"
    /\ UNCHANGED <<grid, df, locals, calls, history>>
    /\ UNCHANGED frame

\* the process is stopped in the middle of a call: nothing is returned
Interrupt ==
    /\ pc \in Steps
    /\ pending' = StoppedBeforeBackfill
    /\ pc' = "idle"
    /\ UNCHANGED <<grid, df, locals, result, reqs, calls, grid0, batches, retry>>
    /\ UNCHANGED frame

Next ==
    \/ StartCall
    \/ ReadHeader
    \/ WriteHeader
    \/ CountRows
    \/ Backfill
    \/ ProbeRows
    \/ AppendRows
    \/ FinalRead
    \/ OuterExcept
    \/ AppendHttpError
    \/ AppendException
    \/ Interrupt

Spec == Init /\ [][Next]_vars

(***************************************************************************)
(* Properties of the synchronization                                       *)
(***************************************************************************)
\* the successful requests of the current call at a step
Sent(step) == { i \in 1..Len(reqs) : reqs[i].step = step /\ reqs[i].ok }

Returned == pc = "idle" /\ result.returned

Succeeded == Returned /\ result.success

\* the remote header and the number of data rows when the call started
Header0 == IF grid0 = <<>> THEN <<>> ELSE grid0[1]

DataRows0 == IF grid0 = <<>> THEN 0 ELSE Len(grid0) - 1

Header == IF grid = <<>> THEN <<>> ELSE grid[1]

\* the columns of the local table that the header H lacks, in local order
Lacking(L, H) == SelectSeq(L, LAMBDA c : ~InList(c, H))

\* C1. Header monotonicity: for a non-empty remote header H and local columns
\* L, the header is H until the call has written the header and from then on
\* (so after every successful call) H followed by the columns of L that are
\* not in H, in L's order; the columns of H keep their names and positions
\* and no introduced name occurs twice.
C1_HeaderMonotone ==
    (calls >= 1 /\ Header0 # <<>>) =>
        LET H == Header0
            widened == H \o Lacking(df.columns, H)
        IN /\ Header \in {H, widened}
           /\ (Sent("header_write") # {} \/ Succeeded) => Header = widened
           /\ SubSeq(Header, 1, Len(H)) = H
           /\ \A i \in (Len(H) + 1)..Len(Header) :
                  \A j \in 1..(i - 1) : Header[j] # Header[i]

\* a successful call has appended two new columns to a non-empty header
C1_Witness ==
    /\ Succeeded
    /\ Header0 # <<>>
    /\ Len(Header) = Len(Header0) + 2

\* the cells a successful backfill request of the current call has written,
\* as <<sheet row, 0-based column>>
BackfillCells ==
    UNION { UNION { { <<reqs[i].range.r0 + r - 1,
                        LetterToIndex(reqs[i].range.c0) + j - 1>> :
                      j \in 1..Len(reqs[i].body[r]) } :
                    r \in 1..Len(reqs[i].body) } :
            i \in Sent("backfill") }

\* the call is past the place of the backfill
PastBackfill == pc \in {"rows_probe", "append", "final_read"} \/ Succeeded

\* C2. Row backfill completeness: when the call has added k >= 1 columns to a
\* sheet that held N >= 1 data rows, the backfill write sets the empty string
\* in exactly the cells of columns len(old header)..len(old header)+k-1 and
\* sheet rows 2..N+1, and afterwards these cells hold the empty string.
C2_BackfillComplete ==
    LET k == Len(Header) - Len(Header0)
        N == DataRows0
        cells == { <<r, c>> : r \in 2..(N + 1),
                              c \in Len(Header0)..(Len(Header0) + k - 1) }
    IN (calls >= 1 /\ Header0 # <<>> /\ k >= 1 /\ N >= 1 /\ PastBackfill) =>
        /\ Cardinality(Sent("backfill")) = 1
        /\ BackfillCells = cells
        /\ \A i \in Sent("backfill") :
              \A r \in 1..Len(reqs[i].body) : \A j \in 1..Len(reqs[i].body[r]) :
                  reqs[i].body[r][j] = EmptyStr
        /\ \A rc \in cells : CellAt(grid, rc[1], rc[2] + 1) = EmptyStr

\* a backfill over two old rows and two new columns has been written
C2_Witness ==
    /\ PastBackfill
    /\ Sent("backfill") # {}
    /\ DataRows0 >= 2
    /\ Len(Header) = Len(Header0) + 2

\* the current call has appended its rows
AppendedNow == Sent("append") # {}

LastBatch == batches[Len(batches)]

\* the sheet row before the first data row of a batch
DataStart(b) == b.at + (IF b.header_sent THEN 1 ELSE 0)

\* the column order of the current call: the header it read followed by the
\* local columns the header lacks; the local columns on an empty sheet
ColumnOrder ==
    IF Header0 = <<>> THEN df.columns
    ELSE Header0 \o Lacking(df.columns, Header0)

\* the value of row i of the local table d under column c, the empty string
\* when d has no column c
LocalValue(d, i, c) ==
    IF InList(c, d.columns) THEN d.rows[i][IndexOf(c, d.columns)] ELSE EmptyStr

\* C3 as stated. Rectangularity of appended rows on a sheet with a header:
\* every appended row has one cell per column of the resulting header and
\* the cell under column c is the local row's value for c, the empty string
\* when the local table has no column c.
C3_AppendedRowsVerbatim ==
    (AppendedNow /\ Header0 # <<>>) =>
        \A i \in 1..Len(df.rows) :
            LET row == grid[DataStart(LastBatch) + i] IN
            /\ Len(row) = Len(Header)
            /\ \A j \in 1..Len(row) : row[j] = LocalValue(df, i, Header[j])

\* C3 as amended. Every appended row has as many cells as the resulting
\* header has columns, in the call's column order, and the cell of column c
\* is the local row's value for c passed through clean_cell (stripped, a
\* null-like sentinel or a value starting with '#' blanked), the empty string
\* when the local table has no column c.
C3_AppendedRowsRectangular ==
    AppendedNow =>
        \A i \in 1..Len(df.rows) :
            LET row == grid[DataStart(LastBatch) + i] IN
            /\ Len(row) = Len(Header)
            /\ Len(row) = Len(ColumnOrder)
            /\ \A j \in 1..Len(row) :
                  row[j] = clean_cell(LocalValue(df, i, ColumnOrder[j]))

\* rows were appended under a header that has a column the local table lacks
\* and a new column, one of the local cells being changed by clean_cell
C3_Witness ==
    /\ AppendedNow
    /\ Header0 # <<>>
    /\ Len(Header) > Len(Header0)
    /\ \E j \in 1..Len(Header0) : ~InList(Header0[j], df.columns)
    /\ \E i \in 1..Len(df.rows) : \E j \in 1..Len(df.columns) :
          clean_cell(df.rows[i][j]) # df.rows[i][j]

BatchSize(b) == Len(b.df.rows) + (IF b.header_sent THEN 1 ELSE 0)

\* the column order under which a batch was appended
BatchOrder(b) ==
    IF b.header_sent THEN b.df.columns ELSE SubSeq(Header, 1, b.width)

Writes == { i \in 1..Len(reqs) : reqs[i].op # "get" }

\* C6. Scenario E: when every local column is in the non-empty remote header
\* the call sends no header write and no backfill; its only write is the
\* append, and the header stays as it was.
C6_NoNewColumnsOnlyAppend ==
    (calls >= 1 /\ Header0 # <<>> /\ Lacking(df.columns, Header0) = <<>>) =>
        /\ \A i \in Writes : reqs[i].step = "append"
        /\ Cardinality(Writes) <= 1
        /\ Succeeded => Cardinality(Writes) = 1
        /\ Header = Header0

\* a call whose columns were all in a header of two columns has succeeded
C6_Witness ==
    /\ Succeeded
    /\ Len(Header0) >= 2
    /\ Lacking(df.columns, Header0) = <<>>
    /\ Len(df.columns) = 2

\* C7 as stated. Crash-retry safety of the backfill: when a call was stopped
\* after it had written the widened header and before its backfill, and the
\* same local table is synchronized again, then after that call every row
\* that existed before holds the empty string under each column the stopped
\* call had added.
C7_RetryBackfills ==
    (retry.active /\ Succeeded) =>
        \A r \in 2..(retry.nrows + 1) : \A c \in retry.first..retry.last :
            CellAt(grid, r, c) = EmptyStr

\* the requests of the current call that failed
Failed == { i \in 1..Len(reqs) : ~reqs[i].ok }

\* C8. Abort without retry: a failed request is the last request of its call
\* (no retry, no further request), the call returns (False, reason, None, 0),
\* and the writes made before the failure stay in the sheet.
C8_AbortWithoutRetry ==
    \A i \in Failed :
        /\ i = Len(reqs)
        /\ pc = "idle"
        /\ result.returned
        /\ ~result.success
        /\ result.message # <<>>
        /\ result.url = "None"
        /\ result.total_rows = 0
        /\ Sent("header_write") # {} => Header = all_columns
        /\ Sent("append") # {} => Len(grid) = Len(grid0) + Len(values)

\* the closing header read has failed after the rows were appended
C8_Witness ==
    /\ Failed # {}
    /\ Sent("append") # {}
    /\ Sent("header_write") # {}

\* the error kind of section 7 for a remote response
ClaimedKind(e) ==
    IF e.status = 429 \/ Contains(e.msg, "Quota exceeded") THEN "quota"
    ELSE IF e.status = 403 THEN "permission"
    ELSE IF Contains(e.msg, "exceeds grid limits") \/ Contains(e.msg, "GRID_LIMITS")
    THEN "capacity"
    ELSE "unknown"

\* the error kind a returned reason names
ReportedKind(message) ==
    CASE message = <<"Rate limit reached. please wait a few minutes">> -> "quota"
      [] message = <<"google daily quota finished. try again tomorrow">> -> "quota"
      [] message = <<"no access to google sheet. check service account">> -> "permission"
      [] message = <<"sheet is full (10m cells limit). create a new sheet">> -> "capacity"
      [] OTHER -> "unknown"

EndsWith(s, t) ==
    Len(s) >= Len(t) /\ SubSeq(s, Len(s) - Len(t) + 1, Len(s)) = t

\* C9 as stated. Error classification at every step: a non-success response
\* to any request of the call is reported as its kind: 429 or a quota message
\* as quota exceeded, 403 as permission denied, a grid-limit message as
\* capacity exceeded, anything else as unknown with the remote message.
C9_ClassifiedAtEveryStep ==
    \A i \in Failed :
        reqs[i].err.http =>
            /\ ReportedKind(result.message) = ClaimedKind(reqs[i].err)
            /\ ClaimedKind(reqs[i].err) = "unknown" =>
                  EndsWith(result.message, reqs[i].err.msg)

\* C10 as stated. Empty remote table: when the header read returned no
\* values, the first row written is the local column names, verbatim and in
\* local order, followed by the local data rows.
C10_EmptyTableHeaderVerbatim ==
    (AppendedNow /\ Header0 = <<>>) =>
        /\ grid[1] = df.columns
        /\ Len(grid) = 1 + Len(df.rows)

\* the numbers the success message reports: new rows, total rows, columns
ReportedNewRows == result.message[3]

ReportedTotalRows == result.message[5]

ReportedColumns == result.message[7]

\* C11 as stated. Report accuracy: on success, for an empty and a non-empty
\* remote table alike, the reported number of new rows is the number of data
\* rows of the local table, and the reported total row count and column
\* count are the sheet's row count and header length after the call.
C11_ReportAccurate ==
    Succeeded =>
        /\ ReportedNewRows = ToString(Len(df.rows))
        /\ ReportedTotalRows = ToString(Len(grid))
        /\ result.total_rows = Len(grid)
        /\ ReportedColumns = ToString(Len(Header))

\* the values of the append request before the final pass of line 1565
RawValues ==
    IF existing_headers = <<>> THEN <<df.columns>> \o df.rows
    ELSE Reindex(df, all_columns)

\* the append requests the current call has sent, failed ones included
AppendRequests == { i \in 1..Len(reqs) : reqs[i].step = "append" }

\* the null-like sentinels the claim names
ClaimedSentinels ==
    { <<"n","a","n">>, <<"n","o","n","e">>, <<"n","a","t">>, <<"n","u","l","l">> }

\* a sent cell is clean with respect to the sentinel set S: a string that is
\* no sentinel of S and does not begin with '#'
CleanFor(S, c) ==
    /\ c # NoValue
    /\ Lower(Strip(c)) \notin S
    /\ ~StartsWith(c, "#")

\* the cell c was sent for the value v: the empty string for a missing
\* value, a sentinel of S or an error marker, the trimmed value otherwise
SentFor(S, v, c) ==
    IF v = NoValue \/ Lower(Strip(v)) \in S \/ StartsWith(Strip(v), "#")
    THEN c = EmptyStr
    ELSE c = Strip(v)

SanitizedFor(S) ==
    \A i \in AppendRequests :
        /\ Len(reqs[i].body) = Len(RawValues)
        /\ \A r \in 1..Len(reqs[i].body) :
              /\ Len(reqs[i].body[r]) = Len(RawValues[r])
              /\ \A j \in 1..Len(reqs[i].body[r]) :
                    /\ CleanFor(S, reqs[i].body[r][j])
                    /\ SentFor(S, RawValues[r][j], reqs[i].body[r][j])

\* C12 as stated. Cell sanitization: every cell of the append request is a
\* string that is neither one of nan, none, nat, null (case-insensitive,
\* trimmed) nor a value beginning with '#'; such values are sent as the empty
\* string and every other value is sent trimmed and otherwise unchanged.
C12_SanitizedAsClaimed == SanitizedFor(ClaimedSentinels)

\* C12 as amended. The same with '<na>' among the null-like sentinels: every
\* cell of the append request is a string that is neither one of nan, none,
\* nat, <na>, null (case-insensitive, trimmed) nor begins with '#'; such
\* values are sent as the empty string, every other value trimmed and
\* otherwise unchanged.
C12_Sanitized == SanitizedFor(Sentinels)

\* an append request was sent for values holding an error marker, the text
\* '<na>' and a plain value
C12_Witness ==
    /\ AppendRequests # {}
    /\ \E r \in 1..Len(RawValues) : \E j \in 1..Len(RawValues[r]) :
          StartsWith(RawValues[r][j], "#")
    /\ \E r \in 1..Len(RawValues) : \E j \in 1..Len(RawValues[r]) :
          Lower(RawValues[r][j]) = <<"<","n","a",">">>
    /\ \E r \in 1..Len(RawValues) : \E j \in 1..Len(RawValues[r]) :
          /\ RawValues[r][j] # <<>>
          /\ clean_cell(RawValues[r][j]) = RawValues[r][j]

(***************************************************************************)
(* Row merge: merge_rows_by_company_id and merge_cell_values               *)
(* (src/script2.py)                                                        *)
(***************************************************************************)
MaxMergeRows == 3

\* the synchronization is not running while a table function is applied
Parked ==
    /\ grid = <<>>
    /\ batches = <<>>
    /\ AtRest

\* 'sub' in s
RECURSIVE HasSub(_, _)
HasSub(s, sub) ==
    IF Len(s) < Len(sub) THEN FALSE
    ELSE IF SubSeq(s, 1, Len(sub)) = sub THEN TRUE
    ELSE HasSub(Tail(s), sub)

\* sep.join(parts)
RECURSIVE Join(_, _)
Join(sep, parts) ==
    IF parts = <<>> THEN <<>>
    ELSE IF Len(parts) = 1 THEN parts[1]
    ELSE parts[1] \o sep \o Join(sep, Tail(parts))

PipeSep == <<" ", "|", " ">>

\* clean_values = [str(v).strip() for v in values
\*                 if pd.notna(v) and str(v).strip() != '']
RECURSIVE CleanValuesOf(_)
CleanValuesOf(vs) ==
    IF vs = <<>> THEN <<>>
    ELSE IF Head(vs) # NoValue /\ Strip(Head(vs)) # EmptyStr
         THEN <<Strip(Head(vs))>> \o CleanValuesOf(Tail(vs))
         ELSE CleanValuesOf(Tail(vs))

\* the loop over clean_values with the set seen
RECURSIVE UniqueValues(_, _, _)
UniqueValues(clean_values, seen, unique_values) ==
    IF clean_values = <<>> THEN unique_values
    ELSE IF Head(clean_values) \notin seen
         THEN UniqueValues(Tail(clean_values), seen \cup {Head(clean_values)},
                           Append(unique_values, Head(clean_values)))
         ELSE UniqueValues(Tail(clean_values), seen, unique_values)

\* merge_cell_values that keeps only the first value
merge_cell_values_first(vs) ==
    LET clean_values == CleanValuesOf(vs) IN
    IF clean_values = <<>> THEN EmptyStr ELSE clean_values[1]

merge_cell_values(vs) ==
    LET clean_values == CleanValuesOf(vs)
        unique_values == UniqueValues(clean_values, {}, <<>>)
    IN IF clean_values = <<>> THEN EmptyStr
       ELSE IF Len(unique_values) = 1 THEN unique_values[1]
       ELSE Join(PipeSep, unique_values)

\* the first column whose lower-cased name holds 'company' and 'id', else
\* the first column (lines 412-419); the result is the column's position
RECURSIVE FindCompanyCol(_, _)
FindCompanyCol(columns, i) ==
    IF i > Len(columns) THEN 1
    ELSE IF /\ HasSub(Lower(columns[i]), <<"c","o","m","p","a","n","y">>)
            /\ HasSub(Lower(columns[i]), <<"i","d">>)
         THEN i
         ELSE FindCompanyCol(columns, i + 1)

\* the order in which groupby(sort=True, dropna=False) yields the keys: the
\* keys in ascending order, the missing key last
KeyRank(k) ==
    CASE k = <<"k","1">> -> 1
      [] k = <<"k","2">> -> 2
      [] OTHER -> 3

RECURSIVE SortKeys(_)
SortKeys(ks) ==
    IF ks = {} THEN <<>>
    ELSE LET k == CHOOSE x \in ks : \A y \in ks : KeyRank(x) <= KeyRank(y)
         IN <<k>> \o SortKeys(ks \ {k})

\* the keys of the groups, in groupby order
GroupKeys(d, kc) == SortKeys({ d.rows[r][kc] : r \in 1..Len(d.rows) })

\* the rows of the group of key k, in row order
GroupRows(d, kc, k) == SelectSeq(d.rows, LAMBDA row : row[kc] = k)

\* group[col].tolist()
ColumnValues(rows, j) == [r \in 1..Len(rows) |-> rows[r][j]]

\* the merged row of a group of two or more rows (lines 435-442)
MergedRow(d, kc, k) ==
    LET group == GroupRows(d, kc, k) IN
    [j \in 1..Len(d.columns) |->
        IF j = kc THEN k ELSE merge_cell_values(ColumnValues(group, j))]

\* the tables the row merge is applied to: a key column, a column of free
\* text and a column that holds a different note in every row
MergeKeys == { <<"k","1">>, <<"k","2">>, NoValue }

MergeTexts == { NoValue, <<" ">>, <<"a">>, <<" ","a">>, <<"b">> }

NoteCell(r) == <<"r", RowDigit(r)>>

Note == <<"N","o","t","e">>

MergeColumnLists ==
    { <<CompanyID, <<"N","a","m","e">>, Note>>,
      <<<<"N","a","m","e">>, CompanyID, Note>> }

MergeTable(cols, ks, ts) ==
    [columns |-> cols,
     rows |-> [r \in 1..Len(ks) |->
         [j \in 1..Len(cols) |->
             IF cols[j] = CompanyID THEN ks[r]
             ELSE IF cols[j] = Note THEN NoteCell(r)
             ELSE ts[r]]]]

\* merge_rows_by_company_id(df) is called
MergeInit ==
    /\ Parked
    /\ \E n \in 1..MaxMergeRows : \E cols \in MergeColumnLists :
          \E ks \in [1..n -> MergeKeys] : \E ts \in [1..n -> MergeTexts] :
              frame = [fn |-> "merge_rows_by_company_id", pc |-> "find_column",
                       df |-> MergeTable(cols, ks, ts), company_id_col |-> 0,
                       grouped |-> <<>>, merged_rows |-> <<>>, df_merged |-> <<>>]

\* lines 412-426: find the key column and group the rows
GroupRowsByKey ==
    /\ frame.pc = "find_column"
    /\ LET kc == FindCompanyCol(frame.df.columns, 1) IN
          frame' = [frame EXCEPT !.company_id_col = kc,
                                 !.grouped = GroupKeys(frame.df, kc),
                                 !.pc = "groups"]
    /\ UNCHANGED <<grid, pc, df, locals, result, reqs, calls, history>>

\* lines 433-434: a group of one row is emitted as it is
EmitSingleRow ==
    /\ frame.pc = "groups"
    /\ frame.grouped # <<>>
    /\ LET group == GroupRows(frame.df, frame.company_id_col, Head(frame.grouped)) IN
          /\ Len(group) = 1
          /\ frame' = [frame EXCEPT !.merged_rows = Append(@, group[1]),
                                     !.grouped = Tail(@)]
    /\ UNCHANGED <<grid, pc, df, locals, result, reqs, calls, history>>

\* lines 435-443: a group of several rows is merged cell by cell
EmitMergedRow ==
    /\ frame.pc = "groups"
    /\ frame.grouped # <<>>
    /\ LET k == Head(frame.grouped)
           group == GroupRows(frame.df, frame.company_id_col, k)
       IN /\ Len(group) # 1
          /\ frame' = [frame EXCEPT
                          !.merged_rows =
                              Append(@, MergedRow(frame.df, frame.company_id_col, k)),
                          !.grouped = Tail(@)]
    /\ UNCHANGED <<grid, pc, df, locals, result, reqs, calls, history>>

\* lines 445-447: df_merged = pd.DataFrame(merged_rows)
MergeReturn ==
    /\ frame.pc = "groups"
    /\ frame.grouped = <<>>
    /\ frame' = [frame EXCEPT !.df_merged = frame.merged_rows, !.pc = "done"]
    /\ UNCHANGED <<grid, pc, df, locals, result, reqs, calls, history>>

MergeNext ==
    \/ GroupRowsByKey
    \/ EmitSingleRow
    \/ EmitMergedRow
    \/ MergeReturn

MergeSpec == MergeInit /\ [][MergeNext]_vars

(***************************************************************************)
(* Properties of the row merge                                             *)
(***************************************************************************)
MergeDone == frame.fn = "merge_rows_by_company_id" /\ frame.pc = "done"

\* the position of the CompanyID column of a table
CompanyIdAt(columns) == CHOOSE j \in 1..Len(columns) : columns[j] = CompanyID

\* a value that is present: not missing and not blank
Present(v) == v # NoValue /\ Strip(v) # EmptyStr

\* the positions of vs that hold the first occurrence of a present trimmed
\* value
FirstOccurrences(vs) ==
    { i \in 1..Len(vs) :
        /\ Present(vs[i])
        /\ \A j \in 1..(i - 1) : ~(Present(vs[j]) /\ Strip(vs[j]) = Strip(vs[i])) }

\* the elements of a set of positions, ascending
RECURSIVE Ascending(_)
Ascending(I) ==
    IF I = {} THEN <<>>
    ELSE LET i == CHOOSE x \in I : \A y \in I : x <= y
         IN <<i>> \o Ascending(I \ {i})

\* the distinct present trimmed values of vs, in row order
DistinctTrimmed(vs) ==
    LET at == Ascending(FirstOccurrences(vs)) IN
    [n \in 1..Len(at) |-> Strip(vs[at[n]])]

\* the rows of the merged table with key k
OutRows(k) ==
    { o \in 1..Len(frame.df_merged) :
        frame.df_merged[o][CompanyIdAt(frame.df.columns)] = k }

\* C13. No data loss in merge_rows_by_company_id: every key of the input has
\* exactly one merged row; for a group of two or more rows the merged cell of
\* every other column is the distinct non-empty trimmed values of the column
\* over the group's rows, in row order, joined by ' | '; a group of exactly
\* one row is emitted unchanged; so every non-empty value of an input row
\* occurs in the merged row of its group.
C13_MergeKeepsValues ==
    MergeDone =>
        LET d == frame.df
            kc == CompanyIdAt(d.columns)
            keys == { d.rows[r][kc] : r \in 1..Len(d.rows) }
        IN /\ Len(frame.df_merged) = Cardinality(keys)
           /\ \A k \in keys :
                 LET group == { r \in 1..Len(d.rows) : d.rows[r][kc] = k }
                     members == Ascending(group)
                 IN /\ Cardinality(OutRows(k)) = 1
                    /\ \A o \in OutRows(k) :
                          LET out == frame.df_merged[o] IN
                          /\ Len(out) = Len(d.columns)
                          /\ Cardinality(group) = 1 => out = d.rows[members[1]]
                          /\ Cardinality(group) > 1 =>
                                \A j \in (1..Len(d.columns)) \ {kc} :
                                    out[j] = Join(PipeSep,
                                        DistinctTrimmed([n \in 1..Len(members) |->
                                                            d.rows[members[n]][j]]))
                          /\ \A r \in group : \A j \in (1..Len(d.columns)) \ {kc} :
                                Present(d.rows[r][j]) =>
                                    HasSub(out[j], Strip(d.rows[r][j]))

\* three rows with the same key were merged: the text column held 'a', ' a'
\* and 'b' and the merged cell holds two joined values
C13_Witness ==
    /\ MergeDone
    /\ Len(frame.df.rows) = 3
    /\ Len(frame.df_merged) = 1
    /\ \E j \in 1..3 :
          /\ ColumnValues(frame.df.rows, j) = << <<"a">>, <<" ","a">>, <<"b">> >>
          /\ frame.df_merged[1][j] = <<"a"," ","|"," ","b">>

(***************************************************************************)
(* Identity key: the normalizers and extract_key_identifier                *)
(* (src/final_mix.py)                                                      *)
(***************************************************************************)
\* Python's None; NoValue stands for NaN, which unlike None is truthy
None == <<"None">>

\* bool(v) of a string, None or NaN
Truthy(v) == v # None /\ v # EmptyStr

\* pd.isna(v)
IsNa(v) == v = None \/ v = NoValue

\* a or b
Or(a, b) == IF Truthy(a) THEN a ELSE b

\* record.get(field, default)
Get(record, field, default) ==
    IF field \in DOMAIN record THEN record[field] ELSE default

\* s.startswith(prefix)
HasPrefix(s, prefix) ==
    Len(s) >= Len(prefix) /\ SubSeq(s, 1, Len(prefix)) = prefix

\* s without its first n characters
Drop(s, n) == SubSeq(s, n + 1, Len(s))

\* s.split(ch)[0]
RECURSIVE Before(_, _)
Before(s, ch) ==
    IF s = <<>> \/ Head(s) = ch THEN <<>>
    ELSE <<Head(s)>> \o Before(Tail(s), ch)

\* s.rstrip(ch)
RECURSIVE RStripChar(_, _)
RStripChar(s, ch) ==
    IF s # <<>> /\ s[Len(s)] = ch THEN RStripChar(SubSeq(s, 1, Len(s) - 1), ch)
    ELSE s

Digits == {"0", "1", "2", "3", "4", "5", "6", "7", "8", "9"}

\* re.sub(r"^https?://", "", u)
StripScheme(u) ==
    IF HasPrefix(u, <<"h","t","t","p","s",":","/","/">>) THEN Drop(u, 8)
    ELSE IF HasPrefix(u, <<"h","t","t","p",":","/","/">>) THEN Drop(u, 7)
    ELSE u

\* re.sub(r"^www\.", "", u)
StripWww(u) == IF HasPrefix(u, <<"w","w","w",".">>) THEN Drop(u, 4) ELSE u

\* normalize_website that leaves a leading 'www.' in place
normalize_website_keep_www(url) ==
    IF ~Truthy(url) \/ IsNa(url) THEN EmptyStr
    ELSE LET u == StripScheme(Lower(Strip(url)))
         IN RStripChar(Before(Before(u, "/"), "?"), ".")

normalize_website(url) ==
    IF ~Truthy(url) \/ IsNa(url) THEN EmptyStr
    ELSE LET u == StripWww(StripScheme(Lower(Strip(url))))
         IN RStripChar(Before(Before(u, "/"), "?"), ".")

\* re.sub(r"[^\d+]", "", str(phone)): the digits and the '+' signs are kept
normalize_phone(phone) ==
    IF ~Truthy(phone) \/ IsNa(phone) THEN EmptyStr
    ELSE SelectSeq(phone, LAMBDA ch : ch \in Digits \cup {"+"})

normalize_value(val) ==
    IF IsNa(val) THEN EmptyStr ELSE Lower(Strip(val))

\* s.replace(old, " ")
RECURSIVE ReplaceBySpace(_, _)
ReplaceBySpace(s, old) ==
    IF Len(s) < Len(old) THEN s
    ELSE IF SubSeq(s, 1, Len(old)) = old
         THEN <<" ">> \o ReplaceBySpace(Drop(s, Len(old)), old)
         ELSE <<Head(s)>> \o ReplaceBySpace(Tail(s), old)

\* the stopwords in Latin script, in the order of the list (the Persian
\* stopwords match no name of the model)
Stopwords ==
    << <<"c","o","m","p","a","n","y">>,
       <<"c","o",".">>,
       <<"c","o">>,
       <<"l","t","d">>,
       <<"i","n","c">>,
       <<"c","o","r","p">>,
       <<"p","r","i","v","a","t","e">>,
       <<"p","u","b","l","i","c">>,
       <<"h","o","l","d","i","n","g">>,
       <<"i","n","t","e","r","n","a","t","i","o","n","a","l">>,
       <<"g","r","o","u","p">> >>

RECURSIVE ReplaceStopwords(_, _)
ReplaceStopwords(n, i) ==
    IF i > Len(Stopwords) THEN n
    ELSE ReplaceStopwords(ReplaceBySpace(n, Stopwords[i]), i + 1)

\* \w for the lower-cased characters of the model
IsWordChar(ch) ==
    ch \in Digits \cup {"_"} \cup { LowerChar(c) : c \in
        {"A","B","C","D","E","F","G","H","I","J","K","L","M",
         "N","O","P","Q","R","S","T","U","V","W","X","Y","Z"} }

\* re.sub(r"[^\w\s]", " ", n)
PunctuationToSpace(n) ==
    [i \in 1..Len(n) |-> IF IsWordChar(n[i]) \/ IsSpace(n[i]) THEN n[i] ELSE " "]

\* re.sub(r"\s+", " ", n)
RECURSIVE CollapseSpaces(_)
CollapseSpaces(n) ==
    IF Len(n) < 2 THEN n
    ELSE IF IsSpace(n[1]) /\ IsSpace(n[2]) THEN CollapseSpaces(Tail(n))
    ELSE <<Head(n)>> \o CollapseSpaces(Tail(n))

normalize_company_name(name) ==
    IF ~Truthy(name) \/ IsNa(name) THEN EmptyStr
    ELSE Strip(CollapseSpaces(PunctuationToSpace(
             ReplaceStopwords(Lower(Strip(name)), 1))))

\* the field names extract_key_identifier reads
Website == <<"W","e","b","s","i","t","e">>

url == <<"u","r","l">>

Phone1 == <<"P","h","o","n","e","1">>

Phone2 == <<"P","h","o","n","e","2">>

Phone3 == <<"P","h","o","n","e","3">>

Phone4 == <<"P","h","o","n","e","4">>

Email == <<"E","m","a","i","l">>

CompanyNameEN == <<"C","o","m","p","a","n","y","N","a","m","e","E","N">>

CompanyNameFA == <<"C","o","m","p","a","n","y","N","a","m","e","F","A">>

\* for pf in phone_fields: the first phone that has 8 characters or more
\* after normalize_phone, EmptyStr when there is none
RECURSIVE FirstPhone(_, _)
FirstPhone(record, phone_fields) ==
    IF phone_fields = <<>> THEN EmptyStr
    ELSE LET phone == normalize_phone(Get(record, Head(phone_fields), EmptyStr))
         IN IF phone # EmptyStr /\ Len(phone) >= 8 THEN phone
            ELSE FirstPhone(record, Tail(phone_fields))

\* for name_field in [...]: the first name longer than 3 characters
RECURSIVE FirstName(_, _)
FirstName(record, name_fields) ==
    IF name_fields = <<>> THEN EmptyStr
    ELSE LET name == normalize_company_name(Get(record, Head(name_fields), EmptyStr))
         IN IF name # EmptyStr /\ Len(name) > 3 THEN name
            ELSE FirstName(record, Tail(name_fields))

\* extract_key_identifier with the e-mail rule in front of the phone rule
extract_key_identifier_email_first(record, ident) ==
    LET website == normalize_website(Or(Get(record, Website, None),
                                        Get(record, url, EmptyStr)))
        phone == FirstPhone(record, <<Phone1, Phone2, Phone3, Phone4>>)
        email == normalize_value(Get(record, Email, EmptyStr))
        name == FirstName(record, <<CompanyNameEN, CompanyNameFA>>)
    IN IF website # EmptyStr THEN <<"website", website>>
       ELSE IF email # EmptyStr /\ "@" \in { email[i] : i \in 1..Len(email) }
       THEN <<"email", email>>
       ELSE IF phone # EmptyStr THEN <<"phone", phone>>
       ELSE IF name # EmptyStr THEN <<"company", name>>
       ELSE <<"unique", ident>>

\* extract_key_identifier; ident is id(record), the identity of the object
extract_key_identifier(record, ident) ==
    LET website == normalize_website(Or(Get(record, Website, None),
                                        Get(record, url, EmptyStr)))
        phone == FirstPhone(record, <<Phone1, Phone2, Phone3, Phone4>>)
        email == normalize_value(Get(record, Email, EmptyStr))
        name == FirstName(record, <<CompanyNameEN, CompanyNameFA>>)
    IN IF website # EmptyStr THEN <<"website", website>>
       ELSE IF phone # EmptyStr THEN <<"phone", phone>>
       ELSE IF email # EmptyStr /\ "@" \in { email[i] : i \in 1..Len(email) }
       THEN <<"email", email>>
       ELSE IF name # EmptyStr THEN <<"company", name>>
       ELSE <<"unique", ident>>

(***************************************************************************)
(* JSON + Excel fusion: merge_two_records, smart_merge_dataframes,         *)
(* merge_url_columns and remove_junk_columns (src/final_mix.py)            *)
(*                                                                         *)
(* A record is a function from column names to values; a table is the      *)
(* sequence of its records, a missing cell being NaN (NoValue).            *)
(***************************************************************************)
MaxFusionRecords == 2

DigitChar(n) ==
    CASE n = 0 -> "0" [] n = 1 -> "1" [] n = 2 -> "2" [] n = 3 -> "3"
      [] n = 4 -> "4" [] n = 5 -> "5" [] n = 6 -> "6" [] n = 7 -> "7"
      [] n = 8 -> "8" [] OTHER -> "9"

\* merged[key] = value
Put(record, key, value) ==
    [k \in DOMAIN record \cup {key} |-> IF k = key THEN value ELSE record[k]]

\* record.pop(key, None)
Pop(record, key) == [k \in DOMAIN record \ {key} |-> record[k]]

\* f"{key}[{counter}]"
Indexed(key, counter) == key \o <<"[", DigitChar(counter), "]">>

are_values_same(val1, val2) == normalize_value(val1) = normalize_value(val2)

\* while f"{key}[{counter}]" in merged: counter += 1
RECURSIVE FreeCounter(_, _, _)
FreeCounter(merged, key, counter) ==
    IF Indexed(key, counter) \in DOMAIN merged
    THEN FreeCounter(merged, key, counter + 1)
    ELSE counter

\* the loop of merge_two_records over the keys in the order the set yields
RECURSIVE MergeKeysLoop(_, _, _, _)
MergeKeysLoop(r1, r2, order, merged) ==
    IF order = <<>> THEN merged
    ELSE LET key == Head(order)
             v1 == Get(r1, key, None)
             v2 == Get(r2, key, None)
         IN IF ~Truthy(v1) /\ ~Truthy(v2)
            THEN MergeKeysLoop(r1, r2, Tail(order), merged)
            ELSE IF ~Truthy(v1)
            THEN MergeKeysLoop(r1, r2, Tail(order), Put(merged, key, v2))
            ELSE IF ~Truthy(v2)
            THEN MergeKeysLoop(r1, r2, Tail(order), Put(merged, key, v1))
            ELSE IF are_values_same(v1, v2)
            THEN MergeKeysLoop(r1, r2, Tail(order), Put(merged, key, v1))
            ELSE LET kept == Put(merged, key, v1)
                     counter == FreeCounter(kept, key, 2)
                 IN MergeKeysLoop(r1, r2, Tail(order),
                                  Put(kept, Indexed(key, counter), v2))

\* the orders in which a set of keys can be iterated
RECURSIVE Orders(_)
Orders(S) ==
    IF S = {} THEN {<<>>}
    ELSE UNION { { <<x>> \o o : o \in Orders(S \ {x}) } : x \in S }

\* merge_two_records(r1, r2); order is the iteration order of the key set
merge_two_records(r1, r2, order) == MergeKeysLoop(r1, r2, order, <<>>)

urls == <<"u","r","l","s">>

\* get_first_url(row)
RECURSIVE get_first_url(_, _)
get_first_url(row, url_fields) ==
    IF url_fields = <<>> THEN EmptyStr
    ELSE LET field == Head(url_fields) IN
         IF /\ field \in DOMAIN row
            /\ Truthy(row[field])
            /\ ~IsNa(row[field])
            /\ Strip(row[field]) # EmptyStr
         THEN Strip(row[field])
         ELSE get_first_url(row, Tail(url_fields))

\* merge_url_columns(df)
merge_url_columns(table) ==
    IF table = <<>> THEN table
    ELSE [r \in 1..Len(table) |->
            IF DOMAIN table[r] \cap {urls, url, Website} # {}
            THEN Pop(Pop(Put(table[r], Website,
                             get_first_url(table[r], <<urls, url, Website>>)),
                         url), urls)
            ELSE table[r]]

\* pd.DataFrame(records): every record gets every column, NaN where it has
\* no value
DataFrame(records) ==
    LET columns == UNION { DOMAIN records[r] : r \in 1..Len(records) } IN
    [r \in 1..Len(records) |->
        [c \in columns |-> Get(records[r], c, NoValue)]]

\* the rest of a column name after a prefix is a run of at least n digits
DigitsAfter(col, prefix, n) ==
    /\ HasPrefix(col, prefix)
    /\ Len(col) - Len(prefix) >= n
    /\ \A i \in (Len(prefix) + 1)..Len(col) : col[i] \in Digits

HasSuffix(s, suffix) ==
    Len(s) >= Len(suffix) /\ SubSeq(s, Len(s) - Len(suffix) + 1, Len(s)) = suffix

\* the junk_patterns of remove_junk_columns
IsJunkColumn(col) ==
    \/ DigitsAfter(col, <<"P","h","o","n","e">>, 2)
    \/ DigitsAfter(col, <<"S","e","r","v","i","c","e","s">>, 1)
    \/ DigitsAfter(col, <<"C","o","m","p","a","n","y","N","a","m","e">>, 1)
    \/ DigitsAfter(col, <<"E","m","a","i","l">>, 1)
    \/ DigitsAfter(col, <<"A","d","d","r","e","s","s">>, 1)
    \/ DigitsAfter(col, <<"C","o","n","t","a","c","t","N","a","m","e">>, 1)
    \/ HasSuffix(col, <<"[", "2", "]">>)
    \/ HasSuffix(col, <<"[", "3", "]">>)
    \/ HasSuffix(col, <<"[", "4", "]">>)
    \/ col = <<"N","o","t","e","s">>
    \/ col = <<"_","s","o","u","r","c","e">>
    \/ DigitsAfter(col, <<"W","e","b","s","i","t","e">>, 1)

remove_junk_columns(table) ==
    [r \in 1..Len(table) |->
        [c \in { k \in DOMAIN table[r] : ~IsJunkColumn(k) } |-> table[r][c]]]

Telegram == <<"T","e","l","e","g","r","a","m">>

SourceField == <<"_","s","o","u","r","c","e">>

\* the values of the records the fusion is applied to
FusionWebsites == { <<"a",".","i","o">>, <<"b",".","i","o">> }

JsonEmails == { NoValue, <<"j","@","a">> }

ExcelEmails == { NoValue, <<"e","@","a">>, <<"j","@","a">> }

\* the i-th row of the JSON table (json_to_dataframe_smart): a website, an
\* e-mail address or none, and a Telegram handle of its own
JsonRecord(i, w, e) ==
    Put(Put(Put(<<>>, Website, w), Email, e), Telegram, <<"t", DigitChar(i)>>)

\* a row of the Excel table (load_excel_dataframe)
ExcelRecord(w, e) == Put(Put(<<>>, Website, w), Email, e)

NoRecord == <<>>

\* lines 626-629 of main: smart_merge_dataframes(json_df, excel_df) is
\* called; the rows of the Excel table differ from each other
\* (drop_duplicates, line 308)
FusionInit ==
    /\ Parked
    /\ \E nj \in 0..MaxFusionRecords : \E ne \in 0..MaxFusionRecords :
          \E jw \in [1..nj -> FusionWebsites] : \E je \in [1..nj -> JsonEmails] :
          \E ew \in [1..ne -> FusionWebsites] : \E ee \in [1..ne -> ExcelEmails] :
              /\ \A a, b \in 1..ne : a # b => <<ew[a], ee[a]>> # <<ew[b], ee[b]>>
              /\ frame = [fn |-> "smart_merge_dataframes", pc |-> "start",
                          json_df |-> [i \in 1..nj |-> JsonRecord(i, jw[i], je[i])],
                          excel_df |-> [i \in 1..ne |-> ExcelRecord(ew[i], ee[i])],
                          groups |-> <<>>, base |-> NoRecord, json_recs |-> <<>>,
                          final_records |-> <<>>, result_df |-> <<>>]

\* groups[f"{kt}:{kv}"].append(rec): a new key goes to the end of the dict
AddToGroup(groups, key, rec) ==
    IF \E g \in 1..Len(groups) : groups[g].key = key
    THEN [g \in 1..Len(groups) |->
            IF groups[g].key = key
            THEN [groups[g] EXCEPT !.recs = Append(@, rec)]
            ELSE groups[g]]
    ELSE Append(groups, [key |-> key, recs |-> <<rec>>])

\* the two loops of lines 382-390 over the records of a source
RECURSIVE GroupSource(_, _, _, _)
GroupSource(groups, records, source, i) ==
    IF i > Len(records) THEN groups
    ELSE LET rec == Put(records[i], SourceField, source)
             key == extract_key_identifier(rec, source \o <<DigitChar(i)>>)
         IN GroupSource(AddToGroup(groups, key, rec), records, source, i + 1)

\* lines 363-373: one of the tables is empty, the other is returned as it is
ReturnOneSource ==
    /\ frame.fn = "smart_merge_dataframes"
    /\ frame.pc = "start"
    /\ frame.json_df = <<>> \/ frame.excel_df = <<>>
    /\ frame' = [frame EXCEPT
                    !.result_df = IF frame.json_df = <<>> THEN frame.excel_df
                                  ELSE frame.json_df,
                    !.pc = "junk"]
    /\ UNCHANGED <<grid, pc, df, locals, result, reqs, calls, history>>

\* lines 375-390: group the records of both tables by identifier
GroupByIdentifier ==
    /\ frame.fn = "smart_merge_dataframes"
    /\ frame.pc = "start"
    /\ frame.json_df # <<>> /\ frame.excel_df # <<>>
    /\ frame' = [frame EXCEPT
                    !.groups = GroupSource(GroupSource(<<>>, frame.json_df, <<"JSON">>, 1),
                                           frame.excel_df, <<"Excel">>, 1),
                    !.pc = "merge"]
    /\ UNCHANGED <<grid, pc, df, locals, result, reqs, calls, history>>

\* lines 405-408: a group of one record
EmitSingleRecord ==
    /\ frame.fn = "smart_merge_dataframes"
    /\ frame.pc = "merge"
    /\ frame.groups # <<>>
    /\ Len(Head(frame.groups).recs) = 1
    /\ frame' = [frame EXCEPT
                    !.final_records = Append(@, Pop(Head(frame.groups).recs[1], SourceField)),
                    !.groups = Tail(@)]
    /\ UNCHANGED <<grid, pc, df, locals, result, reqs, calls, history>>

\* lines 410-417: a group with an Excel record starts from its first Excel
\* record
StartFromExcel ==
    /\ frame.fn = "smart_merge_dataframes"
    /\ frame.pc = "merge"
    /\ frame.groups # <<>>
    /\ LET grecs == Head(frame.groups).recs
           excel_recs == SelectSeq(grecs, LAMBDA r : Get(r, SourceField, None) = <<"Excel">>)
           json_recs == SelectSeq(grecs, LAMBDA r : Get(r, SourceField, None) = <<"JSON">>)
       IN /\ Len(grecs) # 1
          /\ excel_recs # <<>>
          /\ frame' = [frame EXCEPT !.base = Pop(excel_recs[1], SourceField),
                                     !.json_recs = json_recs,
                                     !.pc = "merge_json"]
    /\ UNCHANGED <<grid, pc, df, locals, result, reqs, calls, history>>

\* lines 419-423: one JSON record is merged into the base; the key set is
\* iterated in an order the code does not fix
MergeJsonRecord ==
    /\ frame.fn = "smart_merge_dataframes"
    /\ frame.pc = "merge_json"
    /\ frame.json_recs # <<>>
    /\ LET jc == Pop(Head(frame.json_recs), SourceField) IN
          \E order \in Orders(DOMAIN frame.base \cup DOMAIN jc) :
              frame' = [frame EXCEPT !.base = merge_two_records(frame.base, jc, order),
                                     !.json_recs = Tail(@)]
    /\ UNCHANGED <<grid, pc, df, locals, result, reqs, calls, history>>

\* line 425: final_records.append(base)
AppendBase ==
    /\ frame.fn = "smart_merge_dataframes"
    /\ frame.pc = "merge_json"
    /\ frame.json_recs = <<>>
    /\ frame' = [frame EXCEPT !.final_records = Append(@, frame.base),
                               !.base = NoRecord,
                               !.groups = Tail(@),
                               !.pc = "merge"]
    /\ UNCHANGED <<grid, pc, df, locals, result, reqs, calls, history>>

\* lines 426-430: a group of JSON records only keeps its first record
EmitFirstJson ==
    /\ frame.fn = "smart_merge_dataframes"
    /\ frame.pc = "merge"
    /\ frame.groups # <<>>
    /\ LET grecs == Head(frame.groups).recs
           excel_recs == SelectSeq(grecs, LAMBDA r : Get(r, SourceField, None) = <<"Excel">>)
           json_recs == SelectSeq(grecs, LAMBDA r : Get(r, SourceField, None) = <<"JSON">>)
       IN /\ Len(grecs) # 1
          /\ excel_recs = <<>>
          /\ frame' = [frame EXCEPT
                          !.final_records = Append(@, Pop(json_recs[1], SourceField)),
                          !.groups = Tail(@)]
    /\ UNCHANGED <<grid, pc, df, locals, result, reqs, calls, history>>

\* lines 432-437: the result table
BuildResult ==
    /\ frame.fn = "smart_merge_dataframes"
    /\ frame.pc = "merge"
    /\ frame.groups = <<>>
    /\ frame' = [frame EXCEPT
                    !.result_df = merge_url_columns(DataFrame(frame.final_records)),
                    !.pc = "junk"]
    /\ UNCHANGED <<grid, pc, df, locals, result, reqs, calls, history>>

\* line 629 of main: final_df = remove_junk_columns(final_df)
RemoveJunk ==
    /\ frame.fn = "smart_merge_dataframes"
    /\ frame.pc = "junk"
    /\ frame' = [frame EXCEPT !.result_df = remove_junk_columns(frame.result_df),
                               !.pc = "done"]
    /\ UNCHANGED <<grid, pc, df, locals, result, reqs, calls, history>>

FusionNext ==
    \/ ReturnOneSource
    \/ GroupByIdentifier
    \/ EmitSingleRecord
    \/ StartFromExcel
    \/ MergeJsonRecord
    \/ AppendBase
    \/ EmitFirstJson
    \/ BuildResult
    \/ RemoveJunk

FusionSpec == FusionInit /\ [][FusionNext]_vars

(***************************************************************************)
(* Properties of the fusion                                                *)
(***************************************************************************)
FusionDone == frame.fn = "smart_merge_dataframes" /\ frame.pc = "done"

\* the records of both input tables
FusionInputs ==
    { frame.json_df[i] : i \in 1..Len(frame.json_df) }
        \cup { frame.excel_df[i] : i \in 1..Len(frame.excel_df) }

\* the identity key of a record that has a website
KeyOf(record) == extract_key_identifier(record, <<"object">>)

\* the output records of the identity-key group of a record
OutputOf(record) ==
    { o \in 1..Len(frame.result_df) : KeyOf(frame.result_df[o]) = KeyOf(record) }

\* the value v is in the output record out, under whatever column
Holds(out, v) == \E c \in DOMAIN out : out[c] # NoValue /\ HasSub(out[c], Strip(v))

\* C14 as stated. No data loss in the JSON+Excel fusion: for every
\* identity-key group, every non-empty field value of every JSON record and
\* every Excel record of the group is in the output record of that group,
\* whatever the number of JSON and Excel records of the group.
C14_FusionKeepsValues ==
    FusionDone =>
        \A rec \in FusionInputs : \A f \in DOMAIN rec :
            Present(rec[f]) =>
                \E o \in OutputOf(rec) : Holds(frame.result_df[o], rec[f])

(***************************************************************************)
(* The identity key of one record: extract_key_identifier applied to the   *)
(* records of a table (src/final_mix.py, lines 382-390)                    *)
(***************************************************************************)
Letters ==
    {"A","B","C","D","E","F","G","H","I","J","K","L","M",
     "N","O","P","Q","R","S","T","U","V","W","X","Y","Z"}

UpperChar(ch) ==
    IF \E c \in Letters : LowerChar(c) = ch
    THEN CHOOSE c \in Letters : LowerChar(c) = ch
    ELSE ch

Upper(s) == [i \in 1..Len(s) |-> UpperChar(s[i])]

\* the ways a website of domain d is written: with or without a scheme and
\* a leading 'www.', in lower or upper case, with or without a path and a
\* query string
Domains == { <<"a",".","i","o">>, <<"b",".","i","o">> }

Schemes == { <<>>, <<"h","t","t","p",":","/","/">>, <<"h","t","t","p","s",":","/","/">> }

WwwPrefixes == { <<>>, <<"w","w","w",".">> }

UrlTails == { <<>>, <<"/","c">>, <<"?","q","=","1">>, <<"/","c","?","q","=","1">> }

\* website values that name no domain
NoDomainValues == { NoValue, EmptyStr, <<"h","t","t","p",":","/","/">> }

\* phone values: 8 digits; 8 digits with '+', blanks; with a dash; with
\* parentheses; 7 digits; 7 digits and a '+'
PhoneValues ==
    { NoValue,
      <<"9","8","2","1","1","2","3","4">>,
      <<"+","9","8"," ","2","1"," ","1","2","3","4">>,
      <<"9","8","2","1","-","1","2","3","4">>,
      <<"(","9","8",")","2","1","1","2","3","4">>,
      <<"0","2","1","1","2","3","4">>,
      <<"+","0","2","1","1","2","3","4">> }

SecondPhoneValues == { NoValue, <<"8","7","6","5","4","3","2","1">> }

EmailValues == { NoValue, <<"A","@","b",".","c">>, <<"a","b",".","c">> }

NameValues == { NoValue, <<"A","c","m","e"," ","C","o",".">>, <<"C","o"," ","L","t","d">> }

KeyRecord(w, p1, p2, e, n) ==
    Put(Put(Put(Put(Put(<<>>, Website, w), Phone1, p1), Phone2, p2), Email, e),
        CompanyNameEN, n)

\* a record of a table is about to be given its identifier; site is the
\* domain its website was written from, EmptyStr when it names none
KeyInit ==
    /\ Parked
    /\ \E p1 \in PhoneValues : \E p2 \in SecondPhoneValues :
          \E e \in EmailValues : \E n \in NameValues :
             \/ \E w \in NoDomainValues :
                   frame = [fn |-> "extract_key_identifier", pc |-> "start",
                            record |-> KeyRecord(w, p1, p2, e, n),
                            site |-> EmptyStr, upper |-> FALSE, key |-> <<>>]
             \/ \E d \in Domains : \E sch \in Schemes : \E www \in WwwPrefixes :
                \E tail \in UrlTails : \E up \in BOOLEAN :
                   LET w == sch \o www \o d \o tail IN
                   frame = [fn |-> "extract_key_identifier", pc |-> "start",
                            record |-> KeyRecord(IF up THEN Upper(w) ELSE w,
                                                 p1, p2, e, n),
                            site |-> d, upper |-> up, key |-> <<>>]

\* kt, kv = extract_key_identifier(rec)
ExtractKey ==
    /\ frame.fn = "extract_key_identifier"
    /\ frame.pc = "start"
    /\ frame' = [frame EXCEPT
                    !.key = extract_key_identifier(frame.record, <<"object">>),
                    !.pc = "done"]
    /\ UNCHANGED <<grid, pc, df, locals, result, reqs, calls, history>>

KeyNext == ExtractKey

KeySpec == KeyInit /\ [][KeyNext]_vars

(***************************************************************************)
(* Properties of the identity key                                          *)
(***************************************************************************)
KeyDone == frame.fn = "extract_key_identifier" /\ frame.pc = "done"

\* the attributes of a record that qualify for a key
WebsiteQualifies(r) == normalize_website(r[Website]) # EmptyStr

PhoneQualifies(v) == Len(normalize_phone(v)) >= 8

EmailQualifies(r) ==
    \E i \in 1..Len(normalize_value(r[Email])) : normalize_value(r[Email])[i] = "@"

NameQualifies(r) == Len(normalize_company_name(r[CompanyNameEN])) > 3

\* the rule that applies to a record: the first one, in the order website,
\* phone, e-mail, company name, whose attribute qualifies
RuleOf(r) ==
    CASE WebsiteQualifies(r) -> "website"
      [] ~WebsiteQualifies(r)
            /\ (PhoneQualifies(r[Phone1]) \/ PhoneQualifies(r[Phone2])) -> "phone"
      [] ~WebsiteQualifies(r)
            /\ ~(PhoneQualifies(r[Phone1]) \/ PhoneQualifies(r[Phone2]))
            /\ EmailQualifies(r) -> "email"
      [] ~WebsiteQualifies(r)
            /\ ~(PhoneQualifies(r[Phone1]) \/ PhoneQualifies(r[Phone2]))
            /\ ~EmailQualifies(r)
            /\ NameQualifies(r) -> "company"
      [] OTHER -> "unique"

\* C15. Identity-key precedence: the key of every record comes from the
\* first applicable rule in the order website (non-empty normalized domain),
\* phone (the first of the phone fields that qualifies), e-mail (contains
\* '@'), company name, fallback; an attribute of lower priority never
\* determines the key when one of higher priority qualifies.
C15_KeyPrecedence ==
    KeyDone =>
        LET r == frame.record
            kt == frame.key[1]
            kv == frame.key[2]
        IN /\ kt = RuleOf(r)
           /\ kt = "website" => kv = normalize_website(r[Website])
           /\ kt = "phone" =>
                 kv = IF PhoneQualifies(r[Phone1]) THEN normalize_phone(r[Phone1])
                      ELSE normalize_phone(r[Phone2])
           /\ kt = "email" => kv = normalize_value(r[Email])
           /\ kt = "company" => kv = normalize_company_name(r[CompanyNameEN])

\* a record without a website whose first phone does not qualify and whose
\* second phone, e-mail address and company name all qualify got its key
\* from the second phone
C15_Witness ==
    /\ KeyDone
    /\ ~WebsiteQualifies(frame.record)
    /\ ~PhoneQualifies(frame.record[Phone1])
    /\ frame.record[Phone1] # NoValue
    /\ PhoneQualifies(frame.record[Phone2])
    /\ EmailQualifies(frame.record)
    /\ NameQualifies(frame.record)
    /\ frame.key = <<"phone", <<"8","7","6","5","4","3","2","1">>>>

(***************************************************************************)
(* CompanyID: generate_company_id and the assignment loop of               *)
(* merge_all_data_sources (src/app.py, lines 242-281 and 689-725)          *)
(***************************************************************************)
MaxBatchRows == 2

\* the words generate_company_id removes, in the order of the list (the
\* Persian words match no name of the model)
IdStopwords ==
    << <<"c","o","m","p","a","n","y">>,
       <<"c","o",".">>,
       <<"c","o">>,
       <<"l","t","d">>,
       <<"i","n","c">>,
       <<"g","r","o","u","p">>,
       <<"c","o","r","p","o","r","a","t","i","o","n">>,
       <<"c","o","r","p">>,
       <<".">>,
       <<",">>,
       <<"-">>,
       <<"_">> >>

RECURSIVE ReplaceIdStopwords(_, _)
ReplaceIdStopwords(n, i) ==
    IF i > Len(IdStopwords) THEN n
    ELSE ReplaceIdStopwords(ReplaceBySpace(n, IdStopwords[i]), i + 1)

\* hashlib.sha256(text.encode('utf-8')).hexdigest(), lines 275-276: the
\* 64 hexadecimal digits of the digest, for the texts that are hashed here
\* ('acme', 'beta', and 'z6631450' and 'z41967157', two texts whose digests
\* have the same first 12 digits)
sha256(text) ==
    CASE
         text = <<"a","c","m","e">> ->
             <<"8","2","2","b","3","3","a","d","8","7","c","1","4","8","a","0">> \o
             <<"a","2","0","a","5","b","a","7","c","d","5","e","b","c","a","a">> \o
             <<"6","8","d","3","6","a","1","8","e","7","a","a","d","1","6","5">> \o
             <<"5","5","4","9","0","3","f","5","2","c","a","8","2","7","5","7">>
      [] text = <<"b","e","t","a">> ->
             <<"f","4","4","e","6","4","e","7","5","f","3","9","4","8","e","9">> \o
             <<"f","7","3","f","8","d","f","a","9","4","7","2","1","c","4","c">> \o
             <<"e","8","c","b","b","4","f","2","6","5","c","4","7","9","0","c">> \o
             <<"7","0","2","b","2","d","4","1","c","f","b","f","2","7","5","3">>
      [] text = <<"z","6","6","3","1","4","5","0">> ->
             <<"1","1","1","a","9","c","2","2","5","5","f","5","a","d","6","f">> \o
             <<"a","6","0","e","c","8","8","2","6","1","5","5","a","f","3","3">> \o
             <<"5","4","6","7","9","4","4","3","8","d","f","f","0","f","f","1">> \o
             <<"c","9","c","5","1","4","1","f","0","6","a","3","1","b","e","7">>
      [] text = <<"z","4","1","9","6","7","1","5","7">> ->
             <<"1","1","1","a","9","c","2","2","5","5","f","5","a","4","0","4">> \o
             <<"7","d","9","d","a","1","1","8","8","b","3","d","9","a","2","c">> \o
             <<"f","6","0","8","c","a","c","6","5","d","b","7","c","7","2","f">> \o
             <<"1","9","4","7","a","2","e","d","3","8","b","e","6","d","3","4">>

\* hexdigest()[:12].upper(), line 276
hash_hex(hexdigest) == Upper(SubSeq(hexdigest, 1, 12))

\* the values that random_hash, the first 12 digits of the md5 digest of
\* random.random() (line 255), is drawn from; two draws may be the same
RandomDraws == { <<"r", "1">>, <<"r", "2">> }

\* str(name).strip() not in ['', 'nan', 'None'] for a truthy name
UsableName(name) ==
    /\ Truthy(name)
    /\ name # NoValue
    /\ Strip(name) \notin { EmptyStr, <<"n","a","n">>, <<"N","o","n","e">> }

\* generate_company_id; draw is the value of random_hash
generate_company_id(company_name_fa, company_name_en, draw) ==
    LET company_name ==
            IF UsableName(company_name_fa) THEN Strip(company_name_fa)
            ELSE IF UsableName(company_name_en) THEN Strip(company_name_en)
            ELSE None
    IN IF company_name = None THEN <<"C","O","M","P","_","U","N","K","N","O","W","N","_">> \o draw
       ELSE LET removed == ReplaceIdStopwords(Lower(company_name), 1)
                joined == Strip(CollapseSpaces(removed))
                normalized == IF Len(joined) < 2 THEN Lower(company_name) ELSE joined
            IN <<"C","O","M","P","_">> \o hash_hex(sha256(normalized))

file_name == <<"f","i","l","e","_","n","a","m","e">>

\* not fname or pd.isna(fname) or str(fname).strip() in ['', 'Unknown', 'web_only']
NoFileName(fname) ==
    \/ ~Truthy(fname)
    \/ IsNa(fname)
    \/ Strip(fname) \in { EmptyStr, <<"U","n","k","n","o","w","n">>, <<"w","e","b","_","o","n","l","y">> }

\* the rows of the tables: a file name or none, a company name or none
BatchFiles == { EmptyStr, <<"f", "1">> }

BatchNames == { EmptyStr, <<"A","c","m","e"," ","C","o",".">>, <<"B","e","t","a">>,
                <<"z","6","6","3","1","4","5","0">>, <<"z","4","1","9","6","7","1","5","7">> }

BatchRow(f, n) ==
    Put(Put(Put(<<>>, file_name, f), CompanyNameFA, EmptyStr), CompanyNameEN, n)

\* the row the loop is at
RowAt == frame.runs[frame.run][frame.idx]

\* two runs of the loop of line 692 are about to be made, each over a table
\* of its own
IdInit ==
    /\ Parked
    /\ \E na \in 1..MaxBatchRows : \E nb \in 1..MaxBatchRows :
          \E fa \in [1..na -> BatchFiles] : \E ma \in [1..na -> BatchNames] :
          \E fb \in [1..nb -> BatchFiles] : \E mb \in [1..nb -> BatchNames] :
              frame = [fn |-> "merge_all_data_sources", pc |-> "rows",
                       runs |-> << [i \in 1..na |-> BatchRow(fa[i], ma[i])],
                                   [i \in 1..nb |-> BatchRow(fb[i], mb[i])] >>,
                       run |-> 1, idx |-> 1,
                       file_to_company_id |-> <<>>,
                       ids |-> << <<>>, <<>> >>]

\* lines 695-700: a row without a file name gets the id of its own names
AssignWithoutFile ==
    /\ frame.fn = "merge_all_data_sources"
    /\ frame.pc = "rows"
    /\ frame.idx <= Len(frame.runs[frame.run])
    /\ NoFileName(Get(RowAt, file_name, EmptyStr))
    /\ \E draw \in RandomDraws :
          frame' = [frame EXCEPT
                      !.ids[frame.run] =
                          Append(@, generate_company_id(Get(RowAt, CompanyNameFA, None),
                                                        Get(RowAt, CompanyNameEN, None),
                                                        draw)),
                      !.idx = @ + 1]
    /\ UNCHANGED <<grid, pc, df, locals, result, reqs, calls, history>>

\* lines 702-713: the first row of a file name gets the id of its own names
\* and the file name is given that id
AssignFirstOfFile ==
    /\ frame.fn = "merge_all_data_sources"
    /\ frame.pc = "rows"
    /\ frame.idx <= Len(frame.runs[frame.run])
    /\ ~NoFileName(Get(RowAt, file_name, EmptyStr))
    /\ Strip(RowAt[file_name]) \notin DOMAIN frame.file_to_company_id
    /\ \E draw \in RandomDraws :
          LET company_id == generate_company_id(Get(RowAt, CompanyNameFA, None),
                                                Get(RowAt, CompanyNameEN, None), draw)
          IN frame' = [frame EXCEPT
                         !.ids[frame.run] = Append(@, company_id),
                         !.file_to_company_id = Put(@, Strip(RowAt[file_name]), company_id),
                         !.idx = @ + 1]
    /\ UNCHANGED <<grid, pc, df, locals, result, reqs, calls, history>>

\* lines 714-716: a later row of the file name gets the id of the file name
AssignKnownFile ==
    /\ frame.fn = "merge_all_data_sources"
    /\ frame.pc = "rows"
    /\ frame.idx <= Len(frame.runs[frame.run])
    /\ ~NoFileName(Get(RowAt, file_name, EmptyStr))
    /\ Strip(RowAt[file_name]) \in DOMAIN frame.file_to_company_id
    /\ frame' = [frame EXCEPT
                    !.ids[frame.run] =
                        Append(@, frame.file_to_company_id[Strip(RowAt[file_name])]),
                    !.idx = @ + 1]
    /\ UNCHANGED <<grid, pc, df, locals, result, reqs, calls, history>>

\* the first run is over: the second run starts with an empty dictionary
SecondRun ==
    /\ frame.fn = "merge_all_data_sources"
    /\ frame.pc = "rows"
    /\ frame.run = 1
    /\ frame.idx > Len(frame.runs[1])
    /\ frame' = [frame EXCEPT !.run = 2, !.idx = 1, !.file_to_company_id = <<>>]
    /\ UNCHANGED <<grid, pc, df, locals, result, reqs, calls, history>>

\* the second run is over
RunsDone ==
    /\ frame.fn = "merge_all_data_sources"
    /\ frame.pc = "rows"
    /\ frame.run = 2
    /\ frame.idx > Len(frame.runs[2])
    /\ frame' = [frame EXCEPT !.pc = "done"]
    /\ UNCHANGED <<grid, pc, df, locals, result, reqs, calls, history>>

IdNext ==
    \/ AssignWithoutFile
    \/ AssignFirstOfFile
    \/ AssignKnownFile
    \/ SecondRun
    \/ RunsDone

IdSpec == IdInit /\ [][IdNext]_vars

IdDone == frame.fn = "merge_all_data_sources" /\ frame.pc = "done"

\* C16 as stated. Key determinism: a record that has a company name (so
\* that the random fallback is not taken) is given the same CompanyID in two
\* runs whose tables hold it among different other rows or in a different
\* row order: the id is a function of the record's own attributes.
C16_KeyDeterministic ==
    IdDone =>
        \A i \in 1..Len(frame.runs[1]) : \A j \in 1..Len(frame.runs[2]) :
            (/\ frame.runs[1][i] = frame.runs[2][j]
             /\ UsableName(frame.runs[1][i][CompanyNameEN]))
                => frame.ids[1][i] = frame.ids[2][j]

\* C17. Website key equivalence: for every domain d, the website values that
\* differ only by the scheme (http://, https:// or none), a leading 'www.',
\* the letter case, or a trailing path or query string all give the key
\* Website(d), which is not empty, so that the records carrying them fall
\* into the same group.
C17_WebsiteKey ==
    (KeyDone /\ frame.site # EmptyStr) =>
        /\ frame.key = <<"website", frame.site>>
        /\ frame.key[2] # EmptyStr

\* the key of a record whose website is written in upper case with the
\* scheme https://, a leading 'www.', a path and a query string
C17_Witness ==
    /\ KeyDone
    /\ frame.site = <<"a",".","i","o">>
    /\ frame.record[Website] = Upper(<<"h","t","t","p","s",":","/","/","w","w","w",".","a",".","i","o","/","c","?","q","=","1">>)
    /\ frame.key = <<"website", <<"a",".","i","o">>>>

\* the digits of a phone value, in order
DigitsOnly(v) ==
    IF v = NoValue THEN EmptyStr ELSE SelectSeq(v, LAMBDA ch : ch \in Digits)

\* C18 as stated. Phone key rule: a record without a website gets a Phone
\* key only from a phone value that normalizes to at least 8 digits, and the
\* key is the digits-only string of that value, so that phone values that
\* differ only in non-digit characters (blanks, '+', dashes, parentheses)
\* give the same key.
C18_PhoneKeyDigits ==
    (KeyDone /\ ~WebsiteQualifies(frame.record) /\ frame.key[1] = "phone") =>
        \E pf \in {Phone1, Phone2} :
            /\ Len(DigitsOnly(frame.record[pf])) >= 8
            /\ frame.key[2] = DigitsOnly(frame.record[pf])

(***************************************************************************)
(* Column reconciliation: merge_numbered_columns, merge_duplicate_columns  *)
(* and merge_bilingual_columns (src/script2.py), run in that order by      *)
(* process_company_data                                                    *)
(***************************************************************************)
MaxReconColumns == 3

\* the characters of the column names and of the file names, in code point
\* order
CharOrder ==
    <<"1", "2", "3", "4", "A", "E", "F", "N", "T", "U", "_",
      "a", "d", "e", "f", "k", "l", "n", "o", "r", "s", "t", "w">>

CharRank(ch) == CHOOSE i \in 1..Len(CharOrder) : CharOrder[i] = ch

\* a < b for two strings
RECURSIVE StrLess(_, _)
StrLess(a, b) ==
    IF b = <<>> THEN FALSE
    ELSE IF a = <<>> THEN TRUE
    ELSE IF Head(a) = Head(b) THEN StrLess(Tail(a), Tail(b))
    ELSE CharRank(Head(a)) < CharRank(Head(b))

\* sorted(cols, key=lambda x: (len(x), x))
KeyLess(a, b) == Len(a) < Len(b) \/ (Len(a) = Len(b) /\ StrLess(a, b))

RECURSIVE SortByLenThenName(_)
SortByLenThenName(cols) ==
    IF cols = {} THEN <<>>
    ELSE LET first == CHOOSE x \in cols : \A y \in cols \ {x} : KeyLess(x, y)
         IN <<first>> \o SortByLenThenName(cols \ {first})

\* the shortest prefix of at least one character that is followed by
\* digits only, up to the end: group 1 of r'^(.+?)\d+$'
RECURSIVE LazyPrefix(_, _)
LazyPrefix(name, n) ==
    IF n >= Len(name) THEN name
    ELSE IF \A i \in (n + 1)..Len(name) : name[i] \in Digits
         THEN SubSeq(name, 1, n)
         ELSE LazyPrefix(name, n + 1)

\* extract_base_name: the second and third pattern match no name the first
\* does not match
extract_base_name(col_name) == LazyPrefix(col_name, 1)

\* find_numbered_groups: the base names that two or more columns share, in
\* the order in which the dict meets them
RECURSIVE NumberedBases(_, _, _)
NumberedBases(columns, i, seen) ==
    IF i > Len(columns) THEN <<>>
    ELSE LET base == extract_base_name(Lower(columns[i]))
             members == { j \in 1..Len(columns) :
                            extract_base_name(Lower(columns[j])) = base }
         IN IF base \notin seen /\ Cardinality(members) > 1
            THEN <<base>> \o NumberedBases(columns, i + 1, seen \cup {base})
            ELSE NumberedBases(columns, i + 1, seen \cup {base})

\* the value of row r of table d under the column named c
Cell(d, r, c) == d.rows[r][IndexOf(c, d.columns)]

\* list(dict.fromkeys(values)) of the present trimmed values
UniqueTrimmed(vs) == UniqueValues(CleanValuesOf(vs), {}, <<>>)

\* the table without the columns of a set
DropColumns(d, gone) ==
    LET kept == SelectSeq(d.columns, LAMBDA c : c \notin gone) IN
    [columns |-> kept,
     rows |-> [r \in 1..Len(d.rows) |-> [j \in 1..Len(kept) |-> Cell(d, r, kept[j])]]]

\* the table with the cells of column c replaced by f[r]
SetColumn(d, c, f) ==
    [d EXCEPT !.rows = [r \in 1..Len(d.rows) |->
        [j \in 1..Len(d.columns) |-> IF d.columns[j] = c THEN f[r] ELSE d.rows[r][j]]]]

\* lines 137-157: one numbered group is merged into its first column in
\* the order (length, name)
MergeNumberedGroup(d, base) ==
    LET cols == { d.columns[j] : j \in { j \in 1..Len(d.columns) :
                      extract_base_name(Lower(d.columns[j])) = base } }
        cols_sorted == SortByLenThenName(cols)
        main_col == cols_sorted[1]
        merged == [r \in 1..Len(d.rows) |->
                     LET unique_values ==
                             UniqueTrimmed([n \in 1..Len(cols_sorted) |->
                                               Cell(d, r, cols_sorted[n])])
                     IN IF unique_values = <<>> THEN Cell(d, r, main_col)
                        ELSE Join(PipeSep, unique_values)]
    IN DropColumns(SetColumn(d, main_col, merged), cols \ {main_col})

RECURSIVE MergeNumberedGroups(_, _)
MergeNumberedGroups(d, bases) ==
    IF bases = <<>> THEN d
    ELSE MergeNumberedGroups(MergeNumberedGroup(d, Head(bases)), Tail(bases))

merge_numbered_columns(d) ==
    MergeNumberedGroups(d, NumberedBases(d.columns, 1, {}))

\* the columns of a list whose lowercase spelling is low, in list order
SameLower(columns, low) == SelectSeq(columns, LAMBDA c : Lower(c) = low)

\* duplicated_groups is not empty
HasDuplicateColumns(columns) ==
    \E i, j \in 1..Len(columns) : i # j /\ Lower(columns[i]) = Lower(columns[j])

\* lines 190-216: the loop that builds new_df, from column i on
RECURSIVE MergeDuplicateLoop(_, _, _)
MergeDuplicateLoop(d, i, new_df) ==
    IF i > Len(d.columns) THEN new_df
    ELSE LET col == d.columns[i]
             all_same_cols == SameLower(d.columns, Lower(col))
         IN IF col # all_same_cols[1] THEN MergeDuplicateLoop(d, i + 1, new_df)
            ELSE MergeDuplicateLoop(d, i + 1,
                    [columns |-> Append(new_df.columns, col),
                     rows |-> [r \in 1..Len(d.rows) |->
                        Append(new_df.rows[r],
                               IF Len(all_same_cols) = 1 THEN Cell(d, r, col)
                               ELSE merge_cell_values(
                                       [n \in 1..Len(all_same_cols) |->
                                           Cell(d, r, all_same_cols[n])]))]])

merge_duplicate_columns(d) ==
    IF ~HasDuplicateColumns(d.columns) THEN d
    ELSE MergeDuplicateLoop(d, 1,
            [columns |-> <<>>, rows |-> [r \in 1..Len(d.rows) |-> <<>>]])

\* the suffix pairs of find_bilingual_pairs, in the order they are tried
BilingualPatterns ==
    <<  <<<<"E","N">>, <<"F","A">>>>,
        <<<<"_","e","n">>, <<"_","f","a">>>>,
        <<<<"E","n","g","l","i","s","h">>, <<"P","e","r","s","i","a","n">>>>,
        <<<<>>, <<"F","A">>>>,
        <<<<>>, <<"_","t","r","a","n","s","l","a","t","e","d">>>>  >>

\* the Persian column that pattern n gives to col, or None when the
\* pattern does not apply
PersianColumn(col, n) ==
    LET en_suffix == BilingualPatterns[n][1]
        fa_suffix == BilingualPatterns[n][2]
    IN IF en_suffix # <<>>
       THEN IF HasSuffix(col, en_suffix)
            THEN SubSeq(col, 1, Len(col) - Len(en_suffix)) \o fa_suffix
            ELSE None
       ELSE col \o fa_suffix

\* the first pattern, from n on, whose Persian column is in the list and
\* not processed; 0 when there is none
RECURSIVE FirstPattern(_, _, _, _)
FirstPattern(col, columns, processed, n) ==
    IF n > Len(BilingualPatterns) THEN 0
    ELSE LET fa_col == PersianColumn(col, n)
         IN IF fa_col # None /\ InList(fa_col, columns) /\ fa_col \notin processed
            THEN n
            ELSE FirstPattern(col, columns, processed, n + 1)

\* find_bilingual_pairs, from column i on
RECURSIVE BilingualPairs(_, _, _)
BilingualPairs(columns, i, processed) ==
    IF i > Len(columns) THEN <<>>
    ELSE LET col == columns[i]
             n == FirstPattern(col, columns, processed, 1)
         IN IF col \in processed \/ n = 0
            THEN BilingualPairs(columns, i + 1, processed)
            ELSE <<  <<col, PersianColumn(col, n)>>  >> \o
                 BilingualPairs(columns, i + 1,
                                processed \cup {col, PersianColumn(col, n)})

find_bilingual_pairs(columns) == BilingualPairs(columns, 1, {})

\* a bilingual pass that merges the values of a pair and leaves the
\* Persian column in the table
MergeBilingualPair_kept(d, pair) ==
    LET merged == [r \in 1..Len(d.rows) |->
                     LET unique_values ==
                             UniqueTrimmed(<<Cell(d, r, pair[1]), Cell(d, r, pair[2])>>)
                     IN IF unique_values = <<>> THEN NoValue
                        ELSE Join(PipeSep, unique_values)]
    IN SetColumn(d, pair[1], merged)

\* lines 284-303: one pair is merged into its English column; a cell with
\* no value is stored as missing
MergeBilingualPair(d, pair) ==
    LET en_col == pair[1]
        fa_col == pair[2]
        merged == [r \in 1..Len(d.rows) |->
                     LET unique_values ==
                             UniqueTrimmed(<<Cell(d, r, en_col), Cell(d, r, fa_col)>>)
                     IN IF unique_values = <<>> THEN NoValue
                        ELSE Join(PipeSep, unique_values)]
    IN DropColumns(SetColumn(d, en_col, merged), {fa_col})

RECURSIVE MergeBilingualPairs(_, _)
MergeBilingualPairs(d, pairs) ==
    IF pairs = <<>> THEN d
    ELSE MergeBilingualPairs(MergeBilingualPair(d, Head(pairs)), Tail(pairs))

merge_bilingual_columns(d) ==
    MergeBilingualPairs(d, find_bilingual_pairs(d.columns))

\* merge_groups of merge_specific_columns, lines 320-326
MergeGroups ==
    << << <<"f","a","x">>,
          << <<"f","a","x","e","s">>,
             <<"F","a","x">> >> >>,
       << <<"p","h","o","n","e","s">>,
          << <<"p","h","o","n","e","1">>,
             <<"P","h","o","n","e","1">>,
             <<"P","h","o","n","e">>,
             <<"p","h","o","n","e">> >> >>,
       << <<"u","r","l","s">>,
          << <<"u","r","l">>,
             <<"W","e","b","s","i","t","e">>,
             <<"w","e","b","s","i","t","e">>,
             <<"U","R","L">> >> >>,
       << <<"c","o","m","p","a","n","y","_","n","a","m","e","s">>,
          << <<"C","o","m","p","a","n","y","N","a","m","e","F","A","_","t","r","a","n","s","l","a","t","e","d">>,
             <<"C","o","m","p","a","n","y","N","a","m","e","E","N">> >> >>,
       << <<"e","m","a","i","l","s">>,
          << <<"E","m","a","i","l">>,
             <<"O","t","h","e","r","E","m","a","i","l","s">> >> >> >>

\* lines 330-333 and 337-340: the first column whose lower-cased name is
\* the lower-cased pattern and that is not the column other, or None
RECURSIVE FirstNamed(_, _, _, _)
FirstNamed(columns, pattern, other, i) ==
    IF i > Len(columns) THEN None
    ELSE IF Lower(columns[i]) = Lower(pattern) /\ columns[i] # other
    THEN columns[i]
    ELSE FirstNamed(columns, pattern, other, i + 1)

\* lines 335-340: one column for every pattern that has one, a column as
\* often as patterns find it
RECURSIVE OtherCols(_, _, _, _)
OtherCols(columns, patterns, main_col, n) ==
    IF n > Len(patterns) THEN <<>>
    ELSE LET col == FirstNamed(columns, patterns[n], main_col, 1)
         IN (IF col = None THEN <<>> ELSE <<col>>)
                \o OtherCols(columns, patterns, main_col, n + 1)

\* lines 346-365 and 378-393: the values of the columns cols are merged
\* into the column main_col
MergeInto(d, main_col, cols) ==
    SetColumn(d, main_col,
        [r \in 1..Len(d.rows) |->
            LET unique_values ==
                    UniqueTrimmed([n \in 1..Len(cols) |-> Cell(d, r, cols[n])])
            IN IF unique_values = <<>> THEN Cell(d, r, main_col)
               ELSE Join(PipeSep, unique_values)])

\* lines 328-398: one group of merge_groups.  Without a main column the
\* first of the other columns is the main one, and it is dropped with the
\* remaining ones when a later pattern has found it again
MergeSpecificGroup(d, group) ==
    LET main_col == FirstNamed(d.columns, group[1], None, 1)
        other_cols == OtherCols(d.columns, group[2], main_col, 1)
    IN IF main_col # None /\ other_cols # <<>>
       THEN DropColumns(MergeInto(d, main_col, <<main_col>> \o other_cols),
                        { other_cols[n] : n \in 1..Len(other_cols) })
       ELSE IF main_col = None /\ other_cols # <<>> /\ Tail(other_cols) # <<>>
       THEN DropColumns(MergeInto(d, Head(other_cols), other_cols),
                        { other_cols[n] : n \in 2..Len(other_cols) })
       ELSE d

RECURSIVE MergeSpecificGroups(_, _)
MergeSpecificGroups(d, n) ==
    IF n > Len(MergeGroups) THEN d
    ELSE MergeSpecificGroups(MergeSpecificGroup(d, MergeGroups[n]), n + 1)

merge_specific_columns(d) == MergeSpecificGroups(d, 1)

\* the column names of the tables that are reconciled: the variants of one
\* name, or the names that merge_specific_columns looks for
ReconNames ==
    { <<"T">>, <<"t">>, <<"T","2">>, <<"T","E","N">>, <<"T","F","A">>,
      <<"T","_","t","r","a","n","s","l","a","t","e","d">> }

SpecificNames ==
    { <<"F","a","x">>, <<"f","a","x","e","s">>, <<"W","e","b","s","i","t","e">>,
      <<"u","r","l">>, <<"E","m","a","i","l">>, <<"O","t","h","e","r","E","m","a","i","l","s">> }

\* the cells of the tables that are reconciled
ReconValues == { NoValue, <<"x">>, <<"y">> }

\* process_company_data has read a table of one row with distinct column
\* names, all of them of one of the two sets of names.  input is the table
\* that was read, before the table the last pass was given
ReconInit ==
    /\ Parked
    /\ \E names \in {ReconNames, SpecificNames} :
       \E n \in 1..MaxReconColumns :
         \E columns \in [1..n -> names] :
           \E row \in [1..n -> ReconValues] :
             /\ \A i, j \in 1..n : columns[i] = columns[j] => i = j
             /\ frame = [fn |-> "process_company_data", pc |-> "numbered",
                         df |-> [columns |-> columns, rows |-> <<row>>],
                         input |-> [columns |-> columns, rows |-> <<row>>],
                         before |-> [columns |-> columns, rows |-> <<row>>]]

\* line 652
MergeNumberedColumns ==
    /\ frame.fn = "process_company_data" /\ frame.pc = "numbered"
    /\ frame' = [frame EXCEPT !.df = merge_numbered_columns(frame.df),
                              !.before = frame.df,
                              !.pc = "duplicate"]
    /\ UNCHANGED <<grid, pc, df, locals, result, reqs, calls, history>>

\* line 659
MergeDuplicateColumns ==
    /\ frame.fn = "process_company_data" /\ frame.pc = "duplicate"
    /\ frame' = [frame EXCEPT !.df = merge_duplicate_columns(frame.df),
                              !.before = frame.df,
                              !.pc = "bilingual"]
    /\ UNCHANGED <<grid, pc, df, locals, result, reqs, calls, history>>

\* line 666
MergeBilingualColumns ==
    /\ frame.fn = "process_company_data" /\ frame.pc = "bilingual"
    /\ frame' = [frame EXCEPT !.df = merge_bilingual_columns(frame.df),
                              !.before = frame.df,
                              !.pc = "specific"]
    /\ UNCHANGED <<grid, pc, df, locals, result, reqs, calls, history>>

\* line 673; the table then goes to merge_rows_by_company_id (line 680)
MergeSpecificColumns ==
    /\ frame.fn = "process_company_data" /\ frame.pc = "specific"
    /\ frame' = [frame EXCEPT !.df = merge_specific_columns(frame.df),
                              !.before = frame.df,
                              !.pc = "rows"]
    /\ UNCHANGED <<grid, pc, df, locals, result, reqs, calls, history>>

ReconNext ==
    \/ MergeNumberedColumns
    \/ MergeDuplicateColumns
    \/ MergeBilingualColumns
    \/ MergeSpecificColumns

ReconSpec == ReconInit /\ [][ReconNext]_vars

\* the three passes of lines 652, 659 and 666 have been applied
Reconciled == frame.fn = "process_company_data" /\ frame.pc = "specific"

\* the three passes, in their order
Reconcile(d) ==
    merge_bilingual_columns(merge_duplicate_columns(merge_numbered_columns(d)))

\* C19: the numbered, the duplicate and the bilingual pass, applied in this
\* order to a table they have already reconciled, leave its column list
\* and every cell as they are
C19_ReconIdempotent ==
    Reconciled => Reconcile(frame.df) = frame.df

(***************************************************************************)
(* The tables of the pipeline: merge_all_data_sources (src/app.py 375-761) *)
(* in its three branches, and the head of append_excel_data_to_sheets      *)
(* (lines 905-1001) that reads the merged table back                       *)
(***************************************************************************)
MaxOutColumns == 2

\* df[cols]
Select(d, cols) ==
    [columns |-> cols,
     rows |-> [r \in 1..Len(d.rows) |-> [j \in 1..Len(cols) |-> Cell(d, r, cols[j])]]]

\* row.get(c) and row[c] of a row of table d
CellOr(d, r, c, default) ==
    IF InList(c, d.columns) THEN Cell(d, r, c) ELSE default

\* df.at[r, c] = v: a column the table does not have is added last, the
\* other rows missing under it
SetAt(d, r, c, v) ==
    IF InList(c, d.columns)
    THEN [d EXCEPT !.rows[r][IndexOf(c, d.columns)] = v]
    ELSE [columns |-> Append(d.columns, c),
          rows |-> [q \in 1..Len(d.rows) |->
                       Append(d.rows[q], IF q = r THEN v ELSE NoValue)]]

\* df.insert(pos, c, f), pos counted from 0
InsertColumn(d, pos, c, f) ==
    [columns |-> SubSeq(d.columns, 1, pos) \o <<c>> \o
                 SubSeq(d.columns, pos + 1, Len(d.columns)),
     rows |-> [r \in 1..Len(d.rows) |->
                  SubSeq(d.rows[r], 1, pos) \o <<f[r]>> \o
                  SubSeq(d.rows[r], pos + 1, Len(d.columns))]]

\* the texts the cleaning of the merged table replaces by ''
MergedSentinels ==
    { <<"n","a","n">>, <<"N","o","n","e">>, <<"N","a","T">>, <<"<","N","A",">">>,
      <<"n","u","l","l">>, <<"N","U","L","L">> }

\* fillna(""), astype(str).str.strip() and replace of lines 428-433
CleanMergedCell(v) ==
    IF v = NoValue THEN EmptyStr
    ELSE IF Strip(v) \in MergedSentinels THEN EmptyStr ELSE Strip(v)

CleanMerged(d) ==
    [d EXCEPT !.rows = [r \in 1..Len(d.rows) |->
                           [j \in 1..Len(d.columns) |-> CleanMergedCell(d.rows[r][j])]]]

\* skip_columns of translate_all_columns, lines 782-790
SkipColumns ==
    { <<"f","i","l","e","_","n","a","m","e">>,
      <<"E","x","h","i","b","i","t","i","o","n">>,
      <<"S","o","u","r","c","e">>,
      <<"Q","C","_","S","u","p","e","r","v","i","s","o","r">>,
      <<"Q","C","_","R","o","l","e">>,
      <<"Q","C","_","D","a","t","e">>,
      <<"Q","C","_","T","i","m","e">>,
      <<"Q","C","_","T","i","m","e","s","t","a","m","p">>,
      <<"P","h","o","n","e","1">>,
      <<"P","h","o","n","e","2">>,
      <<"P","h","o","n","e","3">>,
      <<"P","h","o","n","e","4">>,
      <<"P","h","o","n","e","5">>,
      <<"E","m","a","i","l">>,
      <<"E","m","a","i","l","2">>,
      <<"E","m","a","i","l","3">>,
      <<"E","m","a","i","l","4">>,
      <<"W","e","b","s","i","t","e">>,
      <<"W","e","b","s","i","t","e","2">>,
      <<"W","e","b","s","i","t","e","3">>,
      <<"F","a","x">>,
      <<"F","a","x","2">>,
      <<"W","h","a","t","s","A","p","p">>,
      <<"T","e","l","e","g","r","a","m">>,
      <<"I","n","s","t","a","g","r","a","m">>,
      <<"L","i","n","k","e","d","I","n">>,
      <<"P","o","s","t","a","l","C","o","d","e">>,
      <<"C","o","m","p","a","n","y","C","o","d","e">>,
      <<"L","o","g","o">>,
      <<"Q","R","C","o","d","e","s">> }

\* the columns translate_all_columns looks at
Translated(col) ==
    /\ col \notin SkipColumns
    /\ ~HasSuffix(col, <<"_","t","r","a","n","s","l","a","t","e","d">>)
    /\ ~HasSuffix(col, <<"F","A">>)
    /\ ~HasSuffix(col, <<"E","N">>)

\* what the translation service answers: nothing, or a text
Translations == { EmptyStr, <<"f","a">> }

\* lines 833-880: the cells of the columns of cols, from cell (j, r) on; tr
\* is what the service answers for each cell
RECURSIVE TranslateLoop(_, _, _, _, _)
TranslateLoop(d, cols, j, r, tr) ==
    IF j > Len(cols) THEN d
    ELSE IF r > Len(d.rows) THEN TranslateLoop(d, cols, j + 1, 1, tr)
    ELSE LET col == cols[j]
             cell_value == Cell(d, r, col)
         IN IF /\ Translated(col)
               /\ cell_value # NoValue /\ Strip(cell_value) # EmptyStr
               /\ tr[r][j] # EmptyStr
            THEN TranslateLoop(SetAt(d, r, col \o <<"F","A">>, tr[r][j]),
                               cols, j, r + 1, tr)
            ELSE TranslateLoop(d, cols, j, r + 1, tr)

translate_all_columns(d, tr) == TranslateLoop(d, d.columns, 1, 1, tr)

\* pd.concat([d1, d2], ignore_index=True)
Concat(d1, d2) ==
    LET columns == d1.columns \o SelectSeq(d2.columns, LAMBDA c : ~InList(c, d1.columns))
    IN [columns |-> columns,
        rows |-> [r \in 1..(Len(d1.rows) + Len(d2.rows)) |->
                    [j \in 1..Len(columns) |->
                        IF r <= Len(d1.rows) THEN CellOr(d1, r, columns[j], NoValue)
                        ELSE CellOr(d2, r - Len(d1.rows), columns[j], NoValue)]]]

\* lines 692-719: the loop that gives every row its CompanyID, from row r
\* on; draws[r] is the value of random.random() for row r
RECURSIVE CompanyIdLoop(_, _, _, _)
CompanyIdLoop(d, r, file_to_company_id, draws) ==
    IF r > Len(d.rows) THEN d
    ELSE LET fname == CellOr(d, r, file_name, EmptyStr)
             generated == generate_company_id(CellOr(d, r, CompanyNameFA, None),
                                              CellOr(d, r, CompanyNameEN, None),
                                              draws[r])
         IN IF NoFileName(fname)
            THEN CompanyIdLoop(SetAt(d, r, CompanyID, generated), r + 1,
                               file_to_company_id, draws)
            ELSE IF Strip(fname) \notin DOMAIN file_to_company_id
            THEN CompanyIdLoop(SetAt(d, r, CompanyID, generated), r + 1,
                               Put(file_to_company_id, Strip(fname), generated), draws)
            ELSE CompanyIdLoop(SetAt(d, r, CompanyID, file_to_company_id[Strip(fname)]),
                               r + 1, file_to_company_id, draws)

\* cols = ['CompanyID'] + [col for col in df.columns if col != 'CompanyID']
CompanyIdFirst(d) ==
    Select(d, <<CompanyID>> \o SelectSeq(d.columns, LAMBDA c : c # CompanyID))

\* the orders in which sort_values(by=['file_name', 'CompanyID']) can put
\* the rows rs of table d. Rows come by file name; rows of one file name
\* and one id keep their order; rows of one file name and different ids
\* come in the order of the digests, which is any order
RECURSIVE SortOrders(_, _)
SortOrders(d, rs) ==
    IF rs = {} THEN { <<>> }
    ELSE UNION { { <<x>> \o o : o \in SortOrders(d, rs \ {x}) } :
                 x \in { x \in rs : \A y \in rs :
                            /\ ~StrLess(Cell(d, y, file_name), Cell(d, x, file_name))
                            /\ (/\ Cell(d, y, file_name) = Cell(d, x, file_name)
                                /\ Cell(d, y, CompanyID) = Cell(d, x, CompanyID))
                                  => x <= y } }

\* the tables sort_values(by=['file_name', 'CompanyID']) can give
SortedByFile(d) ==
    { [d EXCEPT !.rows = [i \in 1..Len(o) |-> d.rows[o[i]]]] :
        o \in SortOrders(d, 1..Len(d.rows)) }

Exhibition == <<"E","x","h","i","b","i","t","i","o","n">>

Source == <<"S","o","u","r","c","e">>

Unknown == <<"U","n","k","n","o","w","n">>

\* fname_str.endswith(one of the extensions)
EndsWithOneOf(fname_str, extensions) ==
    \E e \in extensions : HasSuffix(fname_str, e)

\* detect_source of lines 942-956
detect_source(fname) ==
    IF NoFileName(fname) THEN <<"W","e","b">>
    ELSE IF EndsWithOneOf(Lower(fname),
                { <<".","j","p","g">>, <<".","j","p","e","g">>, <<".","p","n","g">>,
                  <<".","b","m","p">>, <<".","w","e","b","p">>, <<".","g","i","f">>,
                  <<".","t","i","f","f">>, <<".","h","e","i","c">> })
         THEN <<"I","m","a","g","e">>
    ELSE IF EndsWithOneOf(Lower(fname), { <<".","p","d","f">> })
         THEN <<"P","D","F">>
    ELSE IF EndsWithOneOf(Lower(fname),
                { <<".","x","l","s","x">>, <<".","x","l","s">>, <<".","x","l","s","m">>,
                  <<".","c","s","v">> })
         THEN <<"E","x","c","e","l">>
    ELSE Unknown

\* df.to_excel followed by pd.read_excel: an empty text comes back missing
ReadExcel(d) ==
    [d EXCEPT !.rows = [r \in 1..Len(d.rows) |->
        [j \in 1..Len(d.columns) |->
            IF d.rows[r][j] = EmptyStr THEN NoValue ELSE d.rows[r][j]]]]

\* add_company_id_to_dataframe for a table that has rows; draws[r] is the
\* value of random.random() for row r
add_company_id_to_dataframe(d, draws) ==
    InsertColumn(d, 0, CompanyID,
        [r \in 1..Len(d.rows) |->
            generate_company_id(
                IF Truthy(CellOr(d, r, CompanyNameFA, None))
                THEN Cell(d, r, CompanyNameFA) ELSE None,
                IF Truthy(CellOr(d, r, CompanyNameEN, None))
                THEN Cell(d, r, CompanyNameEN) ELSE None,
                draws[r])])

\* lines 910-913: the exhibition name is put in front
AddExhibition(d, exhibition_name) ==
    IF Truthy(exhibition_name) /\ ~InList(Exhibition, d.columns)
    THEN InsertColumn(d, 0, Exhibition, [r \in 1..Len(d.rows) |-> exhibition_name])
    ELSE d

\* lines 941-961, without QC metadata: the source goes after the exhibition
AddSource(d) ==
    IF InList(file_name, d.columns) /\ ~InList(Source, d.columns)
    THEN InsertColumn(d, IF InList(Exhibition, d.columns) THEN 1 ELSE 0, Source,
                      [r \in 1..Len(d.rows) |-> detect_source(Cell(d, r, file_name))])
    ELSE d

\* lines 992-1001
EnsureCompanyId(d, draws) ==
    LET with_id == IF ~InList(CompanyID, d.columns)
                   THEN add_company_id_to_dataframe(d, draws) ELSE d
    IN IF InList(CompanyID, with_id.columns) THEN CompanyIdFirst(with_id) ELSE with_id

\* the column names of the tables the pipeline reads
OutNames == { CompanyID, file_name, CompanyNameEN }

\* the lists of distinct column names, of at most MaxOutColumns names
OutColumnLists ==
    UNION { { c \in [1..n -> OutNames] : \A i, j \in 1..n : c[i] = c[j] => i = j } :
              n \in 1..MaxOutColumns }

\* the cells of the Excel file of the Excel mode
ExcelCells(c) ==
    IF c = file_name THEN { NoValue, <<"f","1">> }
    ELSE { NoValue, <<"B","e","t","a">> }

\* the cells of the one record of mix_ocr_qr.json: a value that is kept is
\* a text that is not blank, and the record has a file name
MixCells(c) ==
    IF c = file_name THEN { <<"f","1">>, Unknown }
    ELSE { <<"B","e","t","a">> }

\* the cells of the one successful record of the scrape data, after the
\* file names were matched (lines 566-650)
ScrapCells(c) ==
    IF c = file_name THEN { EmptyStr, <<"f","1">> }
    ELSE { <<"B","e","t","a">> }

NoTable == [columns |-> <<>>, rows |-> <<>>]

OneRow(columns, cells) == [columns |-> columns, rows |-> <<cells>>]

\* merge_all_data_sources is called: in Excel mode the Excel file is there,
\* in OCR/QR mode the records of mix_ocr_qr.json are, and the scrape data is
\* missing, without a successful record, or holds one
PipelineInit ==
    /\ Parked
    /\ \/ \E columns \in OutColumnLists :
            \E cells \in [1..Len(columns) -> UNION { ExcelCells(c) : c \in OutNames }] :
              /\ \A j \in 1..Len(columns) : cells[j] \in ExcelCells(columns[j])
              /\ frame = [fn |-> "merge_all_data_sources", pc |-> "start",
                          pipeline_type |-> "excel",
                          df |-> OneRow(columns, cells),
                          scrap |-> "none", df_scrap |-> NoTable]
       \/ \E columns \in OutColumnLists :
            \E cells \in [1..Len(columns) -> UNION { MixCells(c) : c \in OutNames }] :
              /\ InList(file_name, columns)
              /\ \A j \in 1..Len(columns) : cells[j] \in MixCells(columns[j])
              /\ \/ \E scrap \in {"missing", "empty"} :
                      frame = [fn |-> "merge_all_data_sources", pc |-> "start",
                               pipeline_type |-> "ocr_qr",
                               df |-> OneRow(columns, cells),
                               scrap |-> scrap, df_scrap |-> NoTable]
                 \/ \E scolumns \in OutColumnLists :
                      \E scells \in [1..Len(scolumns) ->
                                        UNION { ScrapCells(c) : c \in OutNames }] :
                        /\ InList(file_name, scolumns)
                        /\ \A j \in 1..Len(scolumns) : scells[j] \in ScrapCells(scolumns[j])
                        /\ frame = [fn |-> "merge_all_data_sources", pc |-> "start",
                                    pipeline_type |-> "ocr_qr",
                                    df |-> OneRow(columns, cells),
                                    scrap |-> "rows",
                                    df_scrap |-> OneRow(scolumns, scells)]

\* lines 403-447: the Excel mode cleans and translates the table of the
\* Excel file and saves it
ExcelMode ==
    /\ frame.fn = "merge_all_data_sources" /\ frame.pc = "start"
    /\ frame.pipeline_type = "excel"
    /\ \E tr \in [1..Len(frame.df.rows) -> [1..Len(frame.df.columns) -> Translations]] :
          frame' = [frame EXCEPT !.df = translate_all_columns(CleanMerged(frame.df), tr),
                                !.pc = "merged"]
    /\ UNCHANGED <<grid, pc, df, locals, result, reqs, calls, history>>

\* lines 523-542: without scrape data the cleaned OCR/QR table is saved
OcrQrWithoutScrape ==
    /\ frame.fn = "merge_all_data_sources" /\ frame.pc = "start"
    /\ frame.pipeline_type = "ocr_qr" /\ frame.scrap = "missing"
    /\ frame' = [frame EXCEPT !.df = CleanMerged(frame.df), !.pc = "merged"]
    /\ UNCHANGED <<grid, pc, df, locals, result, reqs, calls, history>>

\* lines 654-659: without a successful scrape record the OCR/QR table is
\* saved as it is
OcrQrEmptyScrape ==
    /\ frame.fn = "merge_all_data_sources" /\ frame.pc = "start"
    /\ frame.pipeline_type = "ocr_qr" /\ frame.scrap = "empty"
    /\ frame' = [frame EXCEPT !.pc = "merged"]
    /\ UNCHANGED <<grid, pc, df, locals, result, reqs, calls, history>>

\* lines 670-757: the two tables are put one after the other and cleaned,
\* every row gets its CompanyID, the column is moved to the front and the
\* rows are sorted
OcrQrWithScrape ==
    /\ frame.fn = "merge_all_data_sources" /\ frame.pc = "start"
    /\ frame.pipeline_type = "ocr_qr" /\ frame.scrap = "rows"
    /\ LET df_final == CleanMerged(Concat(frame.df, frame.df_scrap)) IN
       \E draws \in [1..Len(df_final.rows) -> RandomDraws] :
         \E sorted \in SortedByFile(
                          CompanyIdFirst(CompanyIdLoop(df_final, 1, <<>>, draws))) :
            frame' = [frame EXCEPT !.df = sorted, !.pc = "merged"]
    /\ UNCHANGED <<grid, pc, df, locals, result, reqs, calls, history>>

\* append_excel_data_to_sheets, lines 905-1001: the saved table is read
\* back and the Exhibition, Source and CompanyID columns are put in
ReadMerged ==
    /\ frame.fn = "merge_all_data_sources" /\ frame.pc = "merged"
    /\ \E exhibition_name \in { None, <<"E","x","p","o">> } :
         \E draws \in [1..Len(frame.df.rows) -> RandomDraws] :
            frame' = [frame EXCEPT
                        !.df = EnsureCompanyId(
                                  AddSource(AddExhibition(ReadExcel(frame.df),
                                                          exhibition_name)),
                                  draws),
                        !.pc = "prepared"]
    /\ UNCHANGED <<grid, pc, df, locals, result, reqs, calls, history>>

PipelineNext ==
    \/ ExcelMode
    \/ OcrQrWithoutScrape
    \/ OcrQrEmptyScrape
    \/ OcrQrWithScrape
    \/ ReadMerged

PipelineSpec == PipelineInit /\ [][PipelineNext]_vars

\* merge_all_data_sources has returned its table
Merged == frame.fn = "merge_all_data_sources" /\ frame.pc = "merged"

\* append_excel_data_to_sheets has the table it goes on with
Prepared == frame.fn = "merge_all_data_sources" /\ frame.pc = "prepared"

HasCompanyIdFirst(d) == d.columns # <<>> /\ d.columns[1] = CompanyID

\* C20: the table merge_all_data_sources produces, in Excel mode and in
\* OCR/QR mode without and with scrape data, and the table that is appended
\* to the remote sheet, have a CompanyID column and it is their first column
C20_CompanyIdFirst ==
    (Merged \/ Prepared) => HasCompanyIdFirst(frame.df)

(***************************************************************************)
(* Value normalization: the cleaning of the table that goes to the sheet   *)
(* (src/app.py 1357-1484), and clean_dataframe_before_excel                *)
(* (src/final_mix.py 496-525)                                              *)
(***************************************************************************)
MaxPrefixLen == 2

\* the Persian digits U+06F0..U+06F9, written p0..p9, each one character
PersianDigits == <<"p0", "p1", "p2", "p3", "p4", "p5", "p6", "p7", "p8", "p9">>

english_digits == <<"0", "1", "2", "3", "4", "5", "6", "7", "8", "9">>

\* str.translate(trans_table)
Translate(s) ==
    [i \in 1..Len(s) |->
        IF \E n \in 1..10 : PersianDigits[n] = s[i]
        THEN english_digits[CHOOSE n \in 1..10 : PersianDigits[n] = s[i]]
        ELSE s[i]]

\* the three lambdas of remove_formulas_from_df on one cell: a value that
\* is not a text (missing) is left as it is
RemoveFormulas(x) ==
    IF x = NoValue THEN x
    ELSE LET unformula == IF HasPrefix(x, <<"=">>) THEN Drop(x, 1) ELSE x
             unerror == IF HasPrefix(unformula, <<"#">>) THEN EmptyStr ELSE unformula
         IN Translate(unerror)

\* str(x) of a cell
Str(x) == IF x = NoValue THEN <<"n","a","n">> ELSE x

\* lines 1474-1484 on one cell
CleanText(x) ==
    LET stripped == Strip(Str(x))
        replaced == IF stripped \in MergedSentinels THEN EmptyStr ELSE stripped
    IN IF Lower(replaced) \in { <<"n","a","n">>, <<"n","o","n","e">>,
                               <<"n","a","t">>, <<"n","u","l","l">> }
       THEN EmptyStr ELSE replaced

\* val and str(val).strip() not in ['', 'nan', 'None', 'null', 'NULL']
ValidValue(val) ==
    /\ Truthy(val)
    /\ Strip(Str(val)) \notin { EmptyStr, <<"n","a","n">>, <<"N","o","n","e">>,
                               <<"n","u","l","l">>, <<"N","U","L","L">> }

\* lines 1430-1435: the list values of a row, as pairs of a column and a
\* stripped value, from column j on
RECURSIVE RowValues(_, _)
RowValues(row, j) ==
    IF j > Len(row) THEN <<>>
    ELSE IF ValidValue(row[j])
         THEN << <<j, Strip(Str(row[j]))>> >> \o RowValues(row, j + 1)
         ELSE RowValues(row, j + 1)

\* value_counts[val]: the columns of a value, in the order of the list
ValueColumns(row_values, val) ==
    LET of_val == SelectSeq(row_values, LAMBDA p : p[2] = val)
    IN [n \in 1..Len(of_val) |-> of_val[n][1]]

\* the columns that are emptied when a value of two columns is already
\* taken for repeated
RepeatedColumns_two(row_values) ==
    UNION { { ValueColumns(row_values, row_values[n][2])[m] :
                m \in 2..Len(ValueColumns(row_values, row_values[n][2])) } :
            n \in { n \in 1..Len(row_values) : Len(ValueColumns(row_values, row_values[n][2])) >= 2 } }

\* lines 1447-1453: the columns that are emptied, which are the columns
\* after the first of every value that has three columns or more
RepeatedColumns(row_values) ==
    UNION { { ValueColumns(row_values, row_values[n][2])[m] :
                m \in 2..Len(ValueColumns(row_values, row_values[n][2])) } :
            n \in { n \in 1..Len(row_values) : Len(ValueColumns(row_values, row_values[n][2])) >= 3 } }

\* the pass on one row
RemoveRepeated(row) ==
    [j \in 1..Len(row) |->
        IF j \in RepeatedColumns(RowValues(row, 1)) THEN EmptyStr ELSE row[j]]

\* phone_columns, lines 1385-1387
phone_columns ==
    { <<"p","h","o","n","e","s">>, <<"p","h","o","n","e","s","2">>,
      <<"p","h","o","n","e","s","3">>, <<"p","h","o","n","e","s","4">>,
      <<"p","h","o","n","e","s","5">>, <<"P","h","o","n","e","1">>,
      <<"P","h","o","n","e","2">>, <<"P","h","o","n","e","3">>,
      <<"P","h","o","n","e","4">>, <<"P","h","o","n","e","5">>,
      <<"F","a","x">>, <<"F","a","x","2">>,
      <<"W","h","a","t","s","A","p","p">>, <<"T","e","l","e","g","r","a","m">> }

\* 'fax' in col.lower(), line 1406
IsFaxColumn(col) == HasSub(Lower(col), <<"f","a","x">>)

\* the lambda of lines 1392-1394 and 1411-1413 on one cell
PhoneText(x) ==
    IF Truthy(x) /\ Strip(Str(x)) \notin { EmptyStr, <<"n","a","n">>, <<"N","o","n","e">> }
    THEN <<"'">> \o Str(x)
    ELSE EmptyStr

\* lines 1389-1413 on one row: the cells of the phone columns, then the
\* cells of the fax columns, are made texts
PhoneTexts(columns, row) ==
    [j \in 1..Len(row) |->
        LET phone == IF columns[j] \in phone_columns THEN PhoneText(row[j])
                     ELSE row[j]
        IN IF IsFaxColumn(columns[j]) THEN PhoneText(phone) ELSE phone]

\* what append_excel_data_to_sheets makes of one row, lines 1381-1484:
\* remove_formulas_from_df, the phone and fax columns, the values repeated
\* in the row, the cleaning of the text columns
Normalize(columns, row) ==
    LET unformula == [j \in 1..Len(row) |-> RemoveFormulas(row[j])]
        kept == RemoveRepeated(PhoneTexts(columns, unformula))
    IN [j \in 1..Len(row) |-> CleanText(kept[j])]

\* clean_dataframe_before_excel followed by fillna("") on one cell
clean_dataframe_before_excel(x) ==
    IF RemoveFormulas(x) = NoValue THEN EmptyStr ELSE RemoveFormulas(x)

\* the texts over an alphabet, of at most n characters
RECURSIVE TextsUpTo(_, _)
TextsUpTo(alphabet, n) ==
    IF n = 0 THEN { <<>> }
    ELSE TextsUpTo(alphabet, n - 1) \cup
         { <<ch>> \o t : ch \in alphabet, t \in TextsUpTo(alphabet, n - 1) }

\* what a cell starts with, and what follows
CellPrefixes == TextsUpTo({ "=", "#", " " }, MaxPrefixLen)

CellBodies ==
    { EmptyStr, <<"a">>, <<"n","a","n">>, <<"N","a","N">>, <<"N","o","n","e">>,
      <<"N","U","L","L">>, <<"p1","p2">>, <<"a"," ">> }

CellValues == { p \o b : p \in CellPrefixes, b \in CellBodies } \cup { NoValue }

\* the column of the cell that is normalized: an ordinary one, a phone
\* column, a column that is a phone column and a fax column
NormColumns == { <<"N","a","m","e">>, <<"P","h","o","n","e","1">>, <<"F","a","x">> }

\* the most columns that stand beside it, their names and their cells
MaxFillers == 2

FillerColumns == << <<"C","i","t","y">>, <<"C","o","u","n","t","r","y">>, <<"I","n","d","u","s","t","r","y">> >>

FillerCells == { EmptyStr, <<"a">> }

\* a row is about to be normalized, by the sheet code or by the code that
\* saves the Excel file: a cell in a column of its own, and beside it the
\* cells of ordinary columns
NormInit ==
    /\ Parked
    /\ \E x \in CellValues : \E col \in NormColumns :
       \E n \in 0..MaxFillers : \E fillers \in [1..n -> FillerCells] :
       \E fn \in { "append_excel_data_to_sheets", "save_excel" } :
          frame = [fn |-> fn, pc |-> "clean",
                   columns |-> <<col>> \o SubSeq(FillerColumns, 1, n),
                   row |-> <<x>> \o fillers,
                   once |-> <<>>, twice |-> <<>>]

\* src/app.py, lines 1381-1484
NormalizeForSheets ==
    /\ frame.fn = "append_excel_data_to_sheets" /\ frame.pc = "clean"
    /\ frame' = [frame EXCEPT !.once = Normalize(frame.columns, frame.row),
                              !.pc = "once"]
    /\ UNCHANGED <<grid, pc, df, locals, result, reqs, calls, history>>

\* src/final_mix.py, lines 522-525
NormalizeForExcel ==
    /\ frame.fn = "save_excel" /\ frame.pc = "clean"
    /\ frame' = [frame EXCEPT
                    !.once = [j \in 1..Len(frame.row) |->
                                 clean_dataframe_before_excel(frame.row[j])],
                    !.pc = "once"]
    /\ UNCHANGED <<grid, pc, df, locals, result, reqs, calls, history>>

\* the normalized row is normalized again by the same code
NormalizeAgain ==
    /\ frame.fn \in { "append_excel_data_to_sheets", "save_excel" }
    /\ frame.pc = "once"
    /\ frame' = [frame EXCEPT
                    !.twice = IF frame.fn = "append_excel_data_to_sheets"
                              THEN Normalize(frame.columns, frame.once)
                              ELSE [j \in 1..Len(frame.once) |->
                                       clean_dataframe_before_excel(frame.once[j])],
                    !.pc = "done"]
    /\ UNCHANGED <<grid, pc, df, locals, result, reqs, calls, history>>

NormNext ==
    \/ NormalizeForSheets
    \/ NormalizeForExcel
    \/ NormalizeAgain

NormSpec == NormInit /\ [][NormNext]_vars

NormDone ==
    /\ frame.fn \in { "append_excel_data_to_sheets", "save_excel" }
    /\ frame.pc = "done"

\* C21: normalizing gives a value for every cell, and normalizing the
\* normalized cells again changes nothing
C21_NormalizeIdempotent ==
    NormDone => frame.twice = frame.once

(***************************************************************************)
(* The pass that removes a value repeated in one row                       *)
(* (src/app.py 1420-1467, in append_excel_data_to_sheets)                  *)
(***************************************************************************)
MaxDupColumns == 4

\* the cells of the rows the pass is given: the missing values were
\* replaced by '' before (line 1010), the cells are not stripped yet
DupCells == { EmptyStr, <<"a">>, <<" ","a">>, <<"b">>, <<"n","u","l","l">> }

DupInit ==
    /\ Parked
    /\ \E n \in 1..MaxDupColumns : \E row \in [1..n -> DupCells] :
          frame = [fn |-> "remove_row_duplicates", pc |-> "start",
                   row |-> row, out |-> <<>>]

RemoveRowDuplicates ==
    /\ frame.fn = "remove_row_duplicates" /\ frame.pc = "start"
    /\ frame' = [frame EXCEPT !.out = RemoveRepeated(frame.row), !.pc = "done"]
    /\ UNCHANGED <<grid, pc, df, locals, result, reqs, calls, history>>

DupNext == RemoveRowDuplicates

DupSpec == DupInit /\ [][DupNext]_vars

DupDone == frame.fn = "remove_row_duplicates" /\ frame.pc = "done"

\* the columns of the row whose cell is the cell of column j
SameCell(row, j) == { k \in 1..Len(row) : row[k] = row[j] }

\* the columns of the row whose cell holds, blanks at its ends apart, the
\* value of the cell of column j
SameValue(row, j) ==
    { k \in 1..Len(row) : ValidValue(row[k]) /\ Strip(row[k]) = Strip(row[j]) }

First(S) == CHOOSE j \in S : \A k \in S : j <= k

\* C22 as stated: a cell that is not empty and is the cell of 3 or more
\* columns of the row stays in the first of them only, and a cell of at
\* most 2 columns is left as it is
C22_TriplesAsClaimed ==
    DupDone =>
        \A j \in 1..Len(frame.row) :
            IF frame.row[j] # EmptyStr /\ Cardinality(SameCell(frame.row, j)) >= 3
            THEN frame.out[j] = IF j = First(SameCell(frame.row, j))
                                THEN frame.row[j] ELSE EmptyStr
            ELSE frame.out[j] = frame.row[j]

\* C22: values are compared with the blanks at their ends removed, and the
\* null-like texts count as empty. A value that is in 3 or more columns of
\* the row stays in the first of them only, the others are the empty
\* string; every other cell is left as it is
C22_TriplesRemoved ==
    DupDone =>
        \A j \in 1..Len(frame.row) :
            IF ValidValue(frame.row[j]) /\ Cardinality(SameValue(frame.row, j)) >= 3
            THEN frame.out[j] = IF j = First(SameValue(frame.row, j))
                                THEN frame.row[j] ELSE EmptyStr
            ELSE frame.out[j] = frame.row[j]

\* a row with a value in three columns, of which the pass kept the first
\* and emptied the third, and with a value of one column
C22_Witness ==
    /\ DupDone
    /\ Len(frame.row) = 4
    /\ \E j \in 1..4 :
          /\ Cardinality(SameValue(frame.row, j)) = 3
          /\ j = First(SameValue(frame.row, j))
          /\ frame.out[j] = frame.row[j]
          /\ \E k \in SameValue(frame.row, j) : k > j /\ frame.out[k] = EmptyStr
    /\ \E j \in 1..4 :
          Cardinality(SameValue(frame.row, j)) = 1 /\ frame.out[j] = frame.row[j]

(***************************************************************************)
(* The OCR/QR mode of merge_all_data_sources (src/app.py 450-757): the     *)
(* records of mix_ocr_qr.json, the scrape data and the file that is saved  *)
(***************************************************************************)
MaxItems == 2

ocr_text == <<"o","c","r","_","t","e","x","t">>

\* the keys of an ordered dict, written as a sequence of pairs
Keys(pairs) == { pairs[n][1] : n \in 1..Len(pairs) }

\* d[key] of an ordered dict
ValueOf(pairs, key) == pairs[CHOOSE n \in 1..Len(pairs) : pairs[n][1] = key][2]

\* lines 487-501: the fields of a page that are kept, from field n on; a
\* field is a text or null
RECURSIVE KeptFields(_, _)
KeptFields(page_result, n) ==
    IF n > Len(page_result) THEN <<>>
    ELSE LET key == page_result[n][1]
             value == page_result[n][2]
         IN IF key # ocr_text /\ value # None /\ Strip(value) # EmptyStr
            THEN << <<key, value>> >> \o KeptFields(page_result, n + 1)
            ELSE KeptFields(page_result, n + 1)

\* lines 504-506: the record of a page gets the file name of its item
\* when it has none
WithFileName(record, file_item) ==
    IF file_name \notin Keys(record) \/ ~Truthy(ValueOf(record, file_name))
    THEN SelectSeq(record, LAMBDA p : p[1] # file_name) \o
         << <<file_name, file_item.file_name>> >>
    ELSE record

\* lines 470-480: the pages of an item
PageResults(file_item) ==
    IF file_item.result.kind = "dict" THEN << file_item.result.page >>
    ELSE IF file_item.result.kind = "list" THEN file_item.result.pages
    ELSE <<>>

\* lines 482-509: the records of the pages of an item, from page n on; a
\* page without a field gives no record
RECURSIVE PageRecords(_, _)
PageRecords(file_item, n) ==
    IF n > Len(PageResults(file_item)) THEN <<>>
    ELSE LET page_result == PageResults(file_item)[n]
         IN IF page_result = <<>> THEN PageRecords(file_item, n + 1)
            ELSE << WithFileName(KeptFields(page_result, 1), file_item) >> \o
                 PageRecords(file_item, n + 1)

\* lines 464-509: the list records
RECURSIVE Records(_)
Records(mix_data) ==
    IF mix_data = <<>> THEN <<>>
    ELSE PageRecords(Head(mix_data), 1) \o Records(Tail(mix_data))

\* the columns of pd.DataFrame(records): the keys in the order in which
\* they are met
RECURSIVE FrameColumns(_, _)
FrameColumns(records, columns) ==
    IF records = <<>> THEN columns
    ELSE FrameColumns(Tail(records),
            columns \o [n \in 1..Len(SelectSeq(Head(records),
                                  LAMBDA p : ~InList(p[1], columns))) |->
                          SelectSeq(Head(records),
                                  LAMBDA p : ~InList(p[1], columns))[n][1]])

\* pd.DataFrame(records)
FrameOf(records) ==
    LET columns == FrameColumns(records, <<>>) IN
    [columns |-> columns,
     rows |-> [r \in 1..Len(records) |->
                 [j \in 1..Len(columns) |->
                     IF columns[j] \in Keys(records[r])
                     THEN ValueOf(records[r], columns[j]) ELSE NoValue]]]

Website2 == <<"W","e","b","s","i","t","e","2">>

Website3 == <<"W","e","b","s","i","t","e","3">>

status == <<"s","t","a","t","u","s">>

error == <<"e","r","r","o","r">>

SUCCESS == <<"S","U","C","C","E","S","S">>

FAILED == <<"F","A","I","L","E","D">>

\* s.replace(old, '')
RECURSIVE Remove(_, _)
Remove(s, old) ==
    IF Len(s) < Len(old) THEN s
    ELSE IF SubSeq(s, 1, Len(old)) = old THEN Remove(Drop(s, Len(old)), old)
    ELSE <<Head(s)>> \o Remove(Tail(s), old)

\* normalize_url of lines 571-576
normalize_url(u) ==
    IF ~Truthy(u) \/ IsNa(u) THEN EmptyStr
    ELSE LET lowered == Lower(Strip(u))
             bare == Remove(Remove(Remove(lowered, <<"h","t","t","p",":","/","/">>),
                                   <<"h","t","t","p","s",":","/","/">>),
                            <<"w","w","w",".">>)
         IN Before(Before(bare, "/"), "?")

\* d[key] = value of an ordered dict
SetKey(pairs, key, value) ==
    IF key \in Keys(pairs)
    THEN [n \in 1..Len(pairs) |-> IF pairs[n][1] = key THEN <<key, value>> ELSE pairs[n]]
    ELSE Append(pairs, <<key, value>>)

\* lines 581-587: the first of the columns cols, from column n on, of row r
\* of the OCR/QR table that gives an address and a file name: the pair of
\* the two, or <<>> when there is none
RECURSIVE RowMapping(_, _, _, _)
RowMapping(d, r, cols, n) ==
    IF n > Len(cols) THEN <<>>
    ELSE LET value == CellOr(d, r, cols[n], None)
             u == normalize_url(value)
             filename == CellOr(d, r, file_name, EmptyStr)
         IN IF Truthy(value) /\ ~IsNa(value) /\ u # EmptyStr /\ Truthy(filename)
            THEN <<u, filename>>
            ELSE RowMapping(d, r, cols, n + 1)

\* lines 579-587: the dictionary url_to_filename, from row r on
RECURSIVE UrlToFilename(_, _, _)
UrlToFilename(d, r, url_to_filename) ==
    IF r > Len(d.rows) THEN url_to_filename
    ELSE LET mapping == RowMapping(d, r, <<Website, Website2, Website3, urls, url>>, 1)
         IN IF mapping = <<>> THEN UrlToFilename(d, r + 1, url_to_filename)
            ELSE UrlToFilename(d, r + 1,
                               SetKey(url_to_filename, mapping[1], mapping[2]))

\* lines 598-601: the address of a scrape row: that of the first of the
\* columns, from column n on, that the table has with a cell that is true
RECURSIVE ScrapUrl(_, _, _, _)
ScrapUrl(d, r, cols, n) ==
    IF n > Len(cols) THEN None
    ELSE IF InList(cols[n], d.columns) /\ Truthy(Cell(d, r, cols[n]))
         THEN normalize_url(Cell(d, r, cols[n]))
         ELSE ScrapUrl(d, r, cols, n + 1)

\* lines 616-625: the rows without a file name get the first file name of
\* the dictionary, from row r on
RECURSIVE FillEmpty(_, _, _)
FillEmpty(d, r, default_filename) ==
    IF r > Len(d.rows) THEN d
    ELSE LET fname == Cell(d, r, file_name)
         IN IF ~Truthy(fname) \/ IsNa(fname) \/ Strip(fname) \in { EmptyStr, Unknown }
            THEN FillEmpty(SetAt(d, r, file_name, default_filename), r + 1,
                           default_filename)
            ELSE FillEmpty(d, r + 1, default_filename)

\* lines 597-625: the loop over the scrape rows, from row r on; the rows
\* without a file name are filled in at every turn of the loop
RECURSIVE MatchLoop(_, _, _)
MatchLoop(d, r, url_to_filename) ==
    IF r > Len(d.rows) THEN d
    ELSE LET scrap_url == ScrapUrl(d, r, <<Website, urls, url>>, 1)
             matched == IF Truthy(scrap_url) /\ scrap_url \in Keys(url_to_filename)
                        THEN SetAt(d, r, file_name, ValueOf(url_to_filename, scrap_url))
                        ELSE d
             filled == IF url_to_filename # <<>>
                       THEN FillEmpty(matched, 1, url_to_filename[1][2])
                       ELSE matched
         IN MatchLoop(filled, r + 1, url_to_filename)

\* lines 566-625: the scrape table with its file names
MatchFileNames(df_mix, df_scrap) ==
    LET with_column == IF InList(file_name, df_scrap.columns) THEN df_scrap
                       ELSE [columns |-> Append(df_scrap.columns, file_name),
                             rows |-> [r \in 1..Len(df_scrap.rows) |->
                                           Append(df_scrap.rows[r], EmptyStr)]]
    IN MatchLoop(with_column, 1, UrlToFilename(df_mix, 1, <<>>))

\* the table with the rows of a list of row numbers
TakeRows(d, rs) == [d EXCEPT !.rows = [n \in 1..Len(rs) |-> d.rows[rs[n]]]]

\* df.empty
IsEmpty(d) == d.columns = <<>> \/ d.rows = <<>>

\* lines 634-646: of the rows of one normalized address the first is kept
DropDuplicateUrls(d) ==
    IF InList(Website, d.columns) \/ InList(urls, d.columns)
    THEN LET url_col == IF InList(Website, d.columns) THEN Website ELSE urls
             keep(r) == \A q \in 1..(r - 1) :
                            normalize_url(Cell(d, q, url_col)) #
                            normalize_url(Cell(d, r, url_col))
         IN TakeRows(d, SelectSeq([r \in 1..Len(d.rows) |-> r], keep))
    ELSE d

\* the records of the scrape data, failed or not, without the columns
\* status and error
SuccessfulRows_unfiltered(d) == DropColumns(d, { status, error })

\* lines 553-564: the successful records of the scrape data, without the
\* columns status and error
SuccessfulRows(d) ==
    LET successful == IF InList(status, d.columns)
                      THEN TakeRows(d, SelectSeq([r \in 1..Len(d.rows) |-> r],
                                         LAMBDA r : Cell(d, r, status) = SUCCESS))
                      ELSE d
    IN DropColumns(successful, { status, error })

\* lines 549-646: the scrape table made of the list scrap_data
ScrapeTable(df_mix, scrap_data) ==
    LET df_scrap == SuccessfulRows(FrameOf(scrap_data))
    IN IF IsEmpty(df_scrap) THEN df_scrap
       ELSE DropDuplicateUrls(MatchFileNames(df_mix, df_scrap))

\* the addresses of the pages and of the scrape records
SiteA == <<"a",".","i","o">>

SiteB == <<"b",".","i","o">>

SiteC == <<"c",".","i","o">>

\* the pages of the items: a page without a field, and a page with the
\* address of a site
Pages == { <<>>, << <<Website, SiteA>> >>, << <<Website, SiteB>> >> }

\* what the key "result" of an item holds: the fields of one page, a list
\* of two pages, or nothing of the two
ItemResults ==
    { [kind |-> "dict", page |-> p] : p \in Pages } \cup
    { [kind |-> "list", pages |-> <<p, q>>] : p \in Pages, q \in Pages } \cup
    { [kind |-> "other"] }

\* the file name of item n
ItemFile(n) == <<"f", DigitChar(n)>>

\* the records of the scrape data
ScrapRecords ==
    { << <<Website, w>>, <<status, s>> >> : w \in { SiteA, SiteC }, s \in { SUCCESS, FAILED } }

\* what is found at the place of gemini_scrap_output.json
ScrapFiles ==
    { [found |-> f, scrap_data |-> <<>>] : f \in { "missing", "malformed", "not_list", "list" } }
    \cup { [found |-> "list", scrap_data |-> <<a>>] : a \in ScrapRecords }
    \cup { [found |-> "list", scrap_data |-> <<a, b>>] :
              a \in { a \in ScrapRecords : ValueOf(a, Website) = SiteA }, b \in ScrapRecords }

\* merge_all_data_sources is called in OCR/QR mode
OcrInit ==
    /\ Parked
    /\ \E scrap \in ScrapFiles :
        \/ \E found \in { "missing", "malformed" } :
              frame = [fn |-> "ocr_qr", pc |-> "start", mix |-> found, mix_data |-> <<>>,
                       scrap |-> scrap, df_mix |-> NoTable, df_scrap |-> NoTable,
                       returned |-> "nothing", written |-> NoTable]
        \/ \E n \in 0..MaxItems : \E results \in [1..n -> ItemResults] :
              frame = [fn |-> "ocr_qr", pc |-> "start", mix |-> "list",
                       mix_data |-> [i \in 1..n |->
                                       [file_name |-> ItemFile(i), result |-> results[i]]],
                       scrap |-> scrap, df_mix |-> NoTable, df_scrap |-> NoTable,
                       returned |-> "nothing", written |-> NoTable]

\* lines 454-456 and 518-520: without a file that can be read None is
\* returned
MixUnreadable ==
    /\ frame.fn = "ocr_qr" /\ frame.pc = "start"
    /\ frame.mix \in { "missing", "malformed" }
    /\ frame' = [frame EXCEPT !.returned = "None", !.pc = "done"]
    /\ UNCHANGED <<grid, pc, df, locals, result, reqs, calls, history>>

\* lines 459-516: the records are made; without a record None is returned
ReadMix ==
    /\ frame.fn = "ocr_qr" /\ frame.pc = "start"
    /\ frame.mix = "list"
    /\ LET records == Records(frame.mix_data) IN
       IF records = <<>>
       THEN frame' = [frame EXCEPT !.returned = "None", !.pc = "done"]
       ELSE frame' = [frame EXCEPT !.df_mix = FrameOf(records), !.pc = "mix"]
    /\ UNCHANGED <<grid, pc, df, locals, result, reqs, calls, history>>

\* lines 523-542: without scrape data the cleaned OCR/QR table is saved
SaveWithoutScrape ==
    /\ frame.fn = "ocr_qr" /\ frame.pc = "mix"
    /\ frame.scrap.found = "missing"
    /\ frame' = [frame EXCEPT !.written = CleanMerged(frame.df_mix),
                              !.returned = "path", !.pc = "done"]
    /\ UNCHANGED <<grid, pc, df, locals, result, reqs, calls, history>>

\* lines 663-668: scrape data that cannot be read leaves the OCR/QR table
SaveOnScrapeError ==
    /\ frame.fn = "ocr_qr" /\ frame.pc = "mix"
    /\ frame.scrap.found = "malformed"
    /\ frame' = [frame EXCEPT !.written = frame.df_mix,
                              !.returned = "path", !.pc = "done"]
    /\ UNCHANGED <<grid, pc, df, locals, result, reqs, calls, history>>

\* lines 549-659: the scrape table is made; when it is empty the OCR/QR
\* table is saved
ReadScrape ==
    /\ frame.fn = "ocr_qr" /\ frame.pc = "mix"
    /\ frame.scrap.found \in { "not_list", "list" }
    /\ LET df_scrap == IF frame.scrap.found = "not_list" THEN NoTable
                       ELSE ScrapeTable(frame.df_mix, frame.scrap.scrap_data) IN
       IF IsEmpty(df_scrap)
       THEN frame' = [frame EXCEPT !.written = frame.df_mix,
                                   !.returned = "path", !.pc = "done"]
       ELSE frame' = [frame EXCEPT !.df_scrap = df_scrap, !.pc = "scraped"]
    /\ UNCHANGED <<grid, pc, df, locals, result, reqs, calls, history>>

\* the values of random.random() for the rows of a table: a row whose file
\* name an earlier row has takes the id of the file name and no value
DrawsFor(d) ==
    { draws \in [1..Len(d.rows) -> RandomDraws] :
        \A r \in 1..Len(d.rows) :
            (/\ ~NoFileName(Cell(d, r, file_name))
             /\ \E q \in 1..(r - 1) :
                   Strip(Cell(d, q, file_name)) = Strip(Cell(d, r, file_name)))
               => draws[r] = <<"r", "1">> }

\* lines 670-757: the two tables are put one after the other and saved
SaveConcatenated ==
    /\ frame.fn = "ocr_qr" /\ frame.pc = "scraped"
    /\ LET df_final == CleanMerged(Concat(frame.df_mix, frame.df_scrap)) IN
       \E draws \in DrawsFor(df_final) :
         \E sorted \in SortedByFile(
                          CompanyIdFirst(CompanyIdLoop(df_final, 1, <<>>, draws))) :
            frame' = [frame EXCEPT !.written = sorted, !.returned = "path",
                                   !.pc = "done"]
    /\ UNCHANGED <<grid, pc, df, locals, result, reqs, calls, history>>

OcrNext ==
    \/ MixUnreadable
    \/ ReadMix
    \/ SaveWithoutScrape
    \/ SaveOnScrapeError
    \/ ReadScrape
    \/ SaveConcatenated

OcrSpec == OcrInit /\ [][OcrNext]_vars

OcrDone == frame.fn = "ocr_qr" /\ frame.pc = "done"

\* the mandatory file is there and gives a record: an item has a page with
\* a field
YieldsRecord ==
    /\ frame.mix = "list"
    /\ \E i \in 1..Len(frame.mix_data) :
          \E n \in 1..Len(PageResults(frame.mix_data[i])) :
              PageResults(frame.mix_data[i])[n] # <<>>

\* the rows of the OCR/QR records are in the table, in their order
HoldsMixRows(d) ==
    /\ Len(d.rows) >= Len(frame.df_mix.rows)
    /\ \A c \in Keys([n \in 1..Len(frame.df_mix.columns) |-> <<frame.df_mix.columns[n]>>]) :
          InList(c, d.columns)

\* C23: in OCR/QR mode a file is written and its path returned exactly when
\* the mandatory file gives a record; whatever the scrape data is (missing,
\* unreadable, not a list, empty, without a successful record) the file is
\* then written with the OCR/QR rows; otherwise None is returned and
\* nothing is written
C23_SourceAvailability ==
    OcrDone =>
        /\ frame.returned = "path" <=> YieldsRecord
        /\ frame.returned = "None" <=> ~YieldsRecord
        /\ frame.returned = "path" => (~IsEmpty(frame.written) /\ HoldsMixRows(frame.written))
        /\ frame.returned = "None" => frame.written = NoTable
        /\ (YieldsRecord /\ (frame.scrap.found # "list"
                             \/ \A n \in 1..Len(frame.scrap.scrap_data) :
                                   ValueOf(frame.scrap.scrap_data[n], status) # SUCCESS))
              => \E cleaned \in { frame.df_mix, CleanMerged(frame.df_mix) } :
                    frame.written = cleaned

\* the scrape data is a list without a successful record, and the OCR/QR
\* rows were written alone
C23_Witness ==
    /\ OcrDone
    /\ frame.scrap.found = "list" /\ Len(frame.scrap.scrap_data) = 2
    /\ frame.returned = "path"
    /\ frame.written = frame.df_mix
    /\ Len(frame.df_mix.rows) >= 2

\* the rows of the OCR/QR table whose address is the address u
Carriers(u) ==
    { q \in 1..Len(frame.df_mix.rows) :
        normalize_url(CellOr(frame.df_mix, q, Website, None)) = u }

\* the file names that the most rows of the OCR/QR table have
MostCommonFiles ==
    LET rows == 1..Len(frame.df_mix.rows)
        count(f) == Cardinality({ q \in rows : Cell(frame.df_mix, q, file_name) = f })
    IN { Cell(frame.df_mix, q, file_name) : q \in
           { q \in rows : \A p \in rows :
               count(Cell(frame.df_mix, p, file_name)) <=
               count(Cell(frame.df_mix, q, file_name)) } }

Scraped == frame.fn = "ocr_qr" /\ frame.pc = "scraped"

\* C28: a scrape record whose address is that of rows of the OCR/QR table
\* has the file name of the first of these rows, and a scrape record whose
\* address no row of the OCR/QR table has, has a file name that is most
\* common in the OCR/QR table
C28_FirstMatchOrMostCommon ==
    Scraped =>
        \A r \in 1..Len(frame.df_scrap.rows) :
            LET u == normalize_url(Cell(frame.df_scrap, r, Website))
            IN IF Carriers(u) # {}
               THEN Cell(frame.df_scrap, r, file_name) =
                    Cell(frame.df_mix, First(Carriers(u)), file_name)
               ELSE Cell(frame.df_scrap, r, file_name) \in MostCommonFiles

\* the file names of the pages of the items, in the order of the items and
\* of their pages
RECURSIVE PageFiles(_)
PageFiles(mix_data) ==
    IF mix_data = <<>> THEN <<>>
    ELSE [n \in 1..Len(PageResults(Head(mix_data))) |-> Head(mix_data).file_name] \o
         PageFiles(Tail(mix_data))

\* the file names of the rows of a table
FileColumn(d) ==
    IF InList(file_name, d.columns)
    THEN [r \in 1..Len(d.rows) |-> Cell(d, r, file_name)]
    ELSE <<>>

\* C29: the OCR/QR table has one row for every page of every item, a page
\* without a field included, and every row has the file name of its item
C29_OneRowPerPage ==
    (frame.fn = "ocr_qr" /\ frame.mix = "list" /\ frame.pc # "start") =>
        FileColumn(frame.df_mix) = PageFiles(frame.mix_data)

(***************************************************************************)
(* The loop of _col_index_to_letter (src/app.py 185-191), turn by turn     *)
(***************************************************************************)
MaxColIndex == 702

\* a letter that is one code point too low
NextLetter_from_64(col_index) == (col_index % 26) + 64

\* line 189: the code point of the letter that is put in front
NextLetter(col_index) == (col_index % 26) + 65

\* line 190
NextIndex(col_index) == (col_index \div 26) - 1

LetterInit ==
    /\ Parked
    /\ \E i \in 0..MaxColIndex :
          frame = [fn |-> "_col_index_to_letter", pc |-> "loop", index |-> i,
                   col_index |-> i, result |-> <<>>, turns |-> 0]

\* one turn of the loop of line 188
LetterTurn ==
    /\ frame.fn = "_col_index_to_letter" /\ frame.pc = "loop"
    /\ frame.col_index >= 0
    /\ frame' = [frame EXCEPT !.result = <<NextLetter(frame.col_index)>> \o @,
                              !.col_index = NextIndex(@),
                              !.turns = @ + 1]
    /\ UNCHANGED <<grid, pc, df, locals, result, reqs, calls, history>>

\* line 191
LetterReturn ==
    /\ frame.fn = "_col_index_to_letter" /\ frame.pc = "loop"
    /\ frame.col_index < 0
    /\ frame' = [frame EXCEPT !.pc = "done"]
    /\ UNCHANGED <<grid, pc, df, locals, result, reqs, calls, history>>

LetterNext ==
    \/ LetterTurn
    \/ LetterReturn

LetterSpec == LetterInit /\ [][LetterNext]_vars

LetterDone == frame.fn = "_col_index_to_letter" /\ frame.pc = "done"

\* the value of a name read as a number in the base 26 whose digits are
\* A = 1 .. Z = 26, computed from its first letter on
RECURSIVE Bijective26(_, _)
Bijective26(letters, acc) ==
    IF letters = <<>> THEN acc
    ELSE Bijective26(Tail(letters), acc * 26 + (Head(letters) - 64))

\* the names the claim gives, as code points
LetterExamples ==
    << <<0, <<65>> >>, <<25, <<90>> >>, <<26, <<65, 65>> >>, <<51, <<65, 90>> >>,
       <<52, <<66, 65>> >>, <<701, <<90, 90>> >>, <<702, <<65, 65, 65>> >> >>

\* C24: the name of column i is made of letters A..Z and is the number
\* i + 1 written in base 26 without a zero digit, so two columns never have
\* one name; the names of 0, 25, 26, 51, 52, 701 and 702 are A, Z, AA, AZ,
\* BA, ZZ and AAA; the loop variable goes down at every turn and the loop
\* is left after as many turns as the name has letters
C24_ColumnLetters ==
    /\ frame.fn = "_col_index_to_letter" =>
          /\ frame.turns = Len(frame.result)
          /\ frame.turns <= 3
          /\ frame.turns > 0 => frame.col_index < frame.index
    /\ LetterDone =>
          /\ frame.result # <<>>
          /\ \A n \in 1..Len(frame.result) : frame.result[n] \in 65..90
          /\ Bijective26(frame.result, 0) = frame.index + 1
          /\ frame.result = _col_index_to_letter(frame.index)
          /\ \A n \in 1..Len(LetterExamples) :
                frame.index = LetterExamples[n][1] => frame.result = LetterExamples[n][2]

\* the name AAA of column 702 was made
C24_Witness ==
    LetterDone /\ frame.index = 702 /\ frame.result = <<65, 65, 65>>

\* ---------------------------------------------------------------------
\* The numbered pass, group by group (src/script2.py, lines 104-160)

\* the columns of a list whose lower-cased names have the base of the
\* lower-cased name c, the grouping of find_numbered_groups (line 111)
BaseGroup(columns, c) ==
    { columns[j] : j \in { j \in 1..Len(columns) :
        extract_base_name(Lower(columns[j])) = extract_base_name(Lower(c)) } }

\* the columns of a list whose names, as they are spelled, have the base
\* of the name c
BaseGroupAsSpelled(columns, c) ==
    { columns[j] : j \in { j \in 1..Len(columns) :
        extract_base_name(columns[j]) = extract_base_name(c) } }

\* the trimmed values that the columns of a set hold in row r of table d
PresentValues(d, r, G) ==
    { Strip(v) : v \in { Cell(d, r, c) : c \in G } \ {NoValue} } \ {EmptyStr}

\* the arrangements of a finite set in a sequence
Arrangements(S) ==
    { o \in [1..Cardinality(S) -> S] : \A i, j \in 1..Cardinality(S) :
                                          o[i] = o[j] => i = j }

\* of the columns G of the table given to the pass exactly one is in the
\* table it returns, none of G has a shorter name, and each row holds in
\* it the different values of G joined with ' | '
GroupMerged(before, after, G) ==
    LET kept == G \cap { after.columns[j] : j \in 1..Len(after.columns) } IN
    /\ Cardinality(kept) = 1
    /\ \A c \in kept :
         /\ \A k \in G : Len(c) <= Len(k)
         /\ \A r \in 1..Len(after.rows) :
              LET vs == PresentValues(before, r, G)
                  cell == Cell(after, r, c)
              IN IF vs = {} THEN cell \in {NoValue, EmptyStr}
                 ELSE \E o \in Arrangements(vs) : cell = Join(PipeSep, o)

NumberedDone == frame.fn = "process_company_data" /\ frame.pc = "duplicate"

\* C25: after the numbered pass, of every two or more columns whose
\* names share a base after a trailing digit sequence is stripped exactly
\* one remains, it is one with a shortest name, each row holds in it the
\* different non-empty values of the group joined with ' | ' (one value
\* alone unjoined), and so no value of a dropped column is lost
C25_GroupsAsSpelled ==
    NumberedDone =>
        \A c \in { frame.before.columns[j] : j \in 1..Len(frame.before.columns) } :
            LET G == BaseGroupAsSpelled(frame.before.columns, c) IN
            Cardinality(G) >= 2 => GroupMerged(frame.before, frame.df, G)

\* the same statement of the groups that find_numbered_groups forms, those
\* of the lower-cased names (line 111), in which names that differ in
\* letter case alone are together
LowerBaseGroupsMerged ==
    NumberedDone =>
        \A c \in { frame.before.columns[j] : j \in 1..Len(frame.before.columns) } :
            LET G == BaseGroup(frame.before.columns, c) IN
            Cardinality(G) >= 2 => GroupMerged(frame.before, frame.df, G)

\* the columns T2 and T with the values x and y have become T with x | y
NumberedGroupMergedSeen ==
    /\ NumberedDone
    /\ frame.before = [columns |-> <<<<"T", "2">>, <<"T">>>>,
                       rows |-> <<<< <<"x">>, <<"y">> >>>>]
    /\ frame.df = [columns |-> <<<<"T">>>>,
                   rows |-> <<<< <<"y", " ", "|", " ", "x">> >>>>]

\* ---------------------------------------------------------------------
\* The spelling kept for case duplicates (src/script2.py, lines 104-221,
\* 652-659)

\* the numbered and the duplicate pass of the first application are done
DuplicatesDone ==
    /\ frame.fn = "process_company_data"
    /\ frame.pc = "bilingual"

\* the columns of the table handed over whose lower-cased names are that
\* of column c, in the order of the table
Spellings(c) == SameLower(frame.input.columns, Lower(c))

\* C26: once the numbered and the duplicate pass have run, of the columns
\* handed over whose lower-cased names coincide the one that remains is
\* the first of them in the column order of the table handed over
C26_FirstSpellingKept ==
    DuplicatesDone =>
        \A j \in 1..Len(frame.input.columns) :
            LET same == Spellings(frame.input.columns[j]) IN
            Len(same) >= 2 =>
                { same[n] : n \in 1..Len(same) }
                    \cap { frame.df.columns[n] : n \in 1..Len(frame.df.columns) }
                  = { same[1] }

\* ---------------------------------------------------------------------
\* The bilingual pass, pair by pair (src/script2.py, lines 225-308)

\* a bilingual pass has acted: before is the table it was given, df the
\* table it returned
BilingualDone ==
    /\ frame.fn = "process_company_data"
    /\ frame.pc = "specific"

\* the trimmed text of a cell, empty for a missing one
TextOf(v) == IF v \in {NoValue, None} THEN EmptyStr ELSE Strip(v)

\* what the English column of a pair is to hold for the two texts
BilingualCell(en_val, fa_val) ==
    IF en_val # EmptyStr /\ fa_val # EmptyStr /\ en_val # fa_val
    THEN en_val \o PipeSep \o fa_val
    ELSE IF en_val # EmptyStr THEN en_val ELSE fa_val

\* C27: every column of the table given to the bilingual pass is in at
\* most one of the pairs it detects; for each pair the table returned has
\* the English column and not the Persian one, and each row holds in the
\* English column the English value followed by the Persian value joined
\* with ' | ', one of them alone when the other is empty or the same, and
\* no value when both are empty
C27_BilingualPairsMerged ==
    BilingualDone =>
        LET pairs == find_bilingual_pairs(frame.before.columns) IN
        /\ \A j \in 1..Len(frame.before.columns) :
             Cardinality({ n \in 1..Len(pairs) :
                             frame.before.columns[j] \in {pairs[n][1], pairs[n][2]} }) <= 1
        /\ \A n \in 1..Len(pairs) :
             /\ InList(pairs[n][1], frame.df.columns)
             /\ ~InList(pairs[n][2], frame.df.columns)
             /\ \A r \in 1..Len(frame.df.rows) :
                  LET now == Cell(frame.df, r, pairs[n][1])
                      due == BilingualCell(TextOf(Cell(frame.before, r, pairs[n][1])),
                                           TextOf(Cell(frame.before, r, pairs[n][2])))
                  IN IF due = EmptyStr THEN now \in {NoValue, None, EmptyStr}
                     ELSE now = due

\* the pair TEN, TFA with the values x and y has become TEN with x | y,
\* beside a column T that is in no pair
C27_Witness ==
    /\ BilingualDone
    /\ frame.before = [columns |-> <<<<"T","E","N">>, <<"T","F","A">>, <<"T">>>>,
                       rows |-> <<<< <<"x">>, <<"y">>, <<"y">> >>>>]
    /\ frame.df = [columns |-> <<<<"T","E","N">>, <<"T">>>>,
                   rows |-> <<<< <<"x", " ", "|", " ", "y">>, <<"y">> >>>>]

\* ---------------------------------------------------------------------
\* The worker threads of the scraper (src/excel_mode.py, lines 476-533,
\* 573-587)

\* the most items that main puts in the queue
MaxUrls == 2

\* line 75
THREAD_COUNT == 5

EXCEPTION == <<"E","X","C","E","P","T","I","O","N">>

PoolUrls == { <<"a">>, <<"b">> }

Min(a, b) == IF a <= b THEN a ELSE b

\* results.append(data) of lines 516 and 531, without the append
Recorded_dropped(results, data) == results

\* results.append(data), lines 516 and 531
Recorded(results, data) == Append(results, data)

\* lines 573-582: main has put the items (index, url) in the queue and has
\* started min(THREAD_COUNT, len(urls)) threads; a thread that is started
\* is at the top of its loop.  urls[i] is the url of the item of index i,
\* taken[i] the threads that have taken it, in order
PoolInit ==
    /\ Parked
    /\ \E n \in 1..MaxUrls : \E queued \in [1..n -> PoolUrls] :
          frame = [fn |-> "main", pc |-> "join",
                   urls |-> queued,
                   q |-> [i \in 1..n |-> i],
                   results |-> <<>>,
                   lock |-> 0,
                   w |-> [t \in 1..Min(THREAD_COUNT, n) |->
                            [pc |-> "get", item |-> 0, data |-> <<>>]],
                   taken |-> [i \in 1..n |-> <<>>]]

Threads == DOMAIN frame.w

Running == frame.fn = "main" /\ frame.pc = "join"

\* lines 478-481: q.get_nowait() finds the queue empty and the loop ends
QueueEmpty(t) ==
    /\ Running /\ frame.w[t].pc = "get"
    /\ frame.q = <<>>
    /\ frame' = [frame EXCEPT !.w[t].pc = "ended"]
    /\ UNCHANGED <<grid, pc, df, locals, result, reqs, calls, history>>

\* lines 478-483: q.get_nowait() takes the item at the head of the queue
GetItem(t) ==
    /\ Running /\ frame.w[t].pc = "get"
    /\ frame.q # <<>>
    /\ frame' = [frame EXCEPT !.q = Tail(@),
                              !.w[t].item = Head(frame.q),
                              !.w[t].pc = "work",
                              !.taken[Head(frame.q)] = Append(@, t)]
    /\ UNCHANGED <<grid, pc, df, locals, result, reqs, calls, history>>

\* lines 485-512 and 524-530: the site is crawled and its text analysed;
\* the data are those of a failure, of a success, or of an exception
\* raised on the way
Process(t) ==
    /\ Running /\ frame.w[t].pc = "work"
    /\ \E outcome \in {SUCCESS, FAILED, EXCEPTION} :
          frame' = [frame EXCEPT
                      !.w[t].data = [url |-> frame.urls[frame.w[t].item],
                                     status |-> outcome],
                      !.w[t].pc = "lock"]
    /\ UNCHANGED <<grid, pc, df, locals, result, reqs, calls, history>>

\* with lock, lines 514 and 530: the thread waits until the lock is free
Acquire(t) ==
    /\ Running /\ frame.w[t].pc = "lock"
    /\ frame.lock = 0
    /\ frame' = [frame EXCEPT !.lock = t, !.w[t].pc = "append"]
    /\ UNCHANGED <<grid, pc, df, locals, result, reqs, calls, history>>

\* lines 515-522 and 531: the data are appended (and the list is written
\* to the output file, a failure of which is passed over)
AppendData(t) ==
    /\ Running /\ frame.w[t].pc = "append"
    /\ frame' = [frame EXCEPT !.results = Recorded(@, frame.w[t].data),
                              !.w[t].pc = "unlock"]
    /\ UNCHANGED <<grid, pc, df, locals, result, reqs, calls, history>>

\* the end of the with block, then lines 533-534: the lock is released and
\* the thread is back at the top of its loop
Release(t) ==
    /\ Running /\ frame.w[t].pc = "unlock"
    /\ frame' = [frame EXCEPT !.lock = 0,
                              !.w[t] = [pc |-> "get", item |-> 0, data |-> <<>>]]
    /\ UNCHANGED <<grid, pc, df, locals, result, reqs, calls, history>>

WorkerStep(t) ==
    \/ QueueEmpty(t)
    \/ GetItem(t)
    \/ Process(t)
    \/ Acquire(t)
    \/ AppendData(t)
    \/ Release(t)

\* lines 584-585: every thread has ended and main goes on with the results
JoinThreads ==
    /\ Running
    /\ \A t \in Threads : frame.w[t].pc = "ended"
    /\ frame' = [frame EXCEPT !.pc = "joined"]
    /\ UNCHANGED <<grid, pc, df, locals, result, reqs, calls, history>>

PoolNext ==
    \/ \E t \in 1..THREAD_COUNT : t \in Threads /\ WorkerStep(t)
    \/ JoinThreads

\* a thread that can take a step takes one in the end, and so does main
PoolSpec ==
    /\ PoolInit /\ [][PoolNext]_vars
    /\ \A t \in 1..THREAD_COUNT : WF_vars(t \in Threads /\ WorkerStep(t))
    /\ WF_vars(JoinThreads)

InPool == frame.fn = "main"

AllEnded == InPool /\ \A t \in Threads : frame.w[t].pc = "ended"

\* the entries of the results list with the url u
EntriesOf(u) == { k \in 1..Len(frame.results) : frame.results[k].url = u }

\* the queued items with the url u
ItemsOf(u) == { i \in DOMAIN frame.urls : frame.urls[i] = u }

\* no item is taken twice and none is taken that is still in the queue;
\* the lock is held by the thread that appends; the list has at most the
\* taken items; once all threads have ended every item was taken once, the
\* list has as many entries for each url as there are items with it, each
\* with one of the three statuses
PoolSafe ==
    InPool =>
        /\ \A i \in DOMAIN frame.urls :
             /\ Len(frame.taken[i]) <= 1
             /\ InList(i, frame.q) => frame.taken[i] = <<>>
        /\ \A t \in Threads :
             frame.w[t].pc \in {"append", "unlock"} <=> frame.lock = t
        /\ \A u \in PoolUrls :
             Cardinality(EntriesOf(u)) <= Cardinality(ItemsOf(u))
        /\ \A t \in Threads : frame.w[t].pc = "ended" => frame.q = <<>>
        /\ AllEnded =>
             /\ \A i \in DOMAIN frame.urls : Len(frame.taken[i]) = 1
             /\ Len(frame.results) = Len(frame.urls)
             /\ \A u \in PoolUrls :
                  Cardinality(EntriesOf(u)) = Cardinality(ItemsOf(u))
             /\ \A k \in 1..Len(frame.results) :
                  frame.results[k].status \in {SUCCESS, FAILED, EXCEPTION}

\* C30: in every interleaving of the worker threads each queued item is
\* taken by exactly one thread, once all threads have ended the results
\* list has exactly one entry for each queued item, with the status
\* SUCCESS, FAILED or EXCEPTION, and all threads do end, with the queue
\* empty, after which main has joined them
C30_WorkerPool == [] PoolSafe /\ <> (AllEnded /\ frame.pc = "joined")

\* two items, the second recorded before the first: thread 2 took the
\* lock while thread 1 was still at work
C30_Witness ==
    /\ AllEnded
    /\ frame.pc = "joined"
    /\ frame.urls = <<<<"a">>, <<"b">>>>
    /\ frame.taken = <<<<1>>, <<2>>>>
    /\ frame.results = <<[url |-> <<"b">>, status |-> EXCEPTION],
                         [url |-> <<"a">>, status |-> SUCCESS]>>

\* two items that thread 2 took one after the other, while thread 1 found
\* the queue empty
C30_OneThreadTookAll ==
    /\ AllEnded
    /\ frame.taken = <<<<2>>, <<2>>>>

====
